---- MODULE Spec2Model ----
(***************************************************************************)
(* Searchspot: the Talent / Score resources, the query built by            *)
(* Talent::search_filters, and the four HTTP handlers of server.rs.        *)
(*                                                                         *)
(* The search engine is the program's environment.  It is modelled by the  *)
(* contract the code relies on: one index holding typed documents keyed by *)
(* id, a bulk write that replaces the document with the same id, delete by *)
(* id, and a search that evaluates the query tree on every stored document *)
(* and sorts the hits.  The engine is observed at refresh points, as the   *)
(* repository's tests do (refresh_index after every write).                *)
(*                                                                         *)
(* Strings that the code parses are sequences of one-character strings;    *)
(* timestamps are instants (integers) and a date string is the numeral of  *)
(* its instant.                                                            *)
(***************************************************************************)
EXTENDS Integers, Sequences, FiniteSets, TLC

(***************************************************************************)
(* Bounds of the model.                                                    *)
(***************************************************************************)
MaxId    == 2
MaxTime  == 2
MaxBatch == 2

Ids   == 1..MaxId
Times == 0..MaxTime

(***************************************************************************)
(* Option and Result.                                                      *)
(***************************************************************************)
None      == [some |-> FALSE]
Some(v)   == [some |-> TRUE, v |-> v]
Ok(v)     == [ok |-> TRUE, v |-> v]
Err(m)    == [ok |-> FALSE, msg |-> m]

(***************************************************************************)
(* Sequence helpers.                                                       *)
(***************************************************************************)
RECURSIVE Concat(_)
Concat(ss) == IF ss = <<>> THEN <<>> ELSE Head(ss) \o Concat(Tail(ss))

Elems(s) == {s[i] : i \in DOMAIN s}

Take(s, n) == SubSeq(s, 1, IF n < Len(s) THEN n ELSE Len(s))
Drop(s, n) == IF n >= Len(s) THEN <<>> ELSE SubSeq(s, n + 1, Len(s))

(***************************************************************************)
(* Strings: str::parse of a number and the rendering of a number.          *)
(***************************************************************************)
Digits == <<"0", "1", "2", "3", "4", "5", "6", "7", "8", "9">>

IsDigit(c) == \E i \in DOMAIN Digits : Digits[i] = c
DigitVal(c) == (CHOOSE i \in DOMAIN Digits : Digits[i] = c) - 1

RECURSIVE DigitsValue(_, _)
DigitsValue(s, acc) ==
  IF s = <<>> THEN acc ELSE DigitsValue(Tail(s), acc * 10 + DigitVal(Head(s)))

\* "12".parse::<u64>(): every character a digit and at least one of them
ParseU64(s) ==
  IF s # <<>> /\ \A i \in DOMAIN s : IsDigit(s[i])
  THEN Some(DigitsValue(s, 0))
  ELSE None

RECURSIVE to_string(_)
to_string(n) ==
  IF n < 10 THEN <<Digits[n + 1]>>
  ELSE to_string(n \div 10) \o <<Digits[(n % 10) + 1]>>

(***************************************************************************)
(* params::Value and params::Map.  A Map is a record over the keys the     *)
(* code reads; a key that was never assigned holds Absent.                 *)
(***************************************************************************)
Absent  == [t |-> "Absent"]
Str(s)  == [t |-> "String", s |-> s]
U64(n)  == [t |-> "U64", n |-> n]
Arr(a)  == [t |-> "Array", a |-> a]

\* <i32 as FromValue>::from_value
I32FromValue(val) ==
  CASE val.t = "String" -> ParseU64(val.s)
    [] val.t = "U64"    -> Some(val.n)
    [] OTHER            -> None

\* <String as FromValue>::from_value
StringFromValue(val) ==
  CASE val.t = "String" -> Some(val.s)
    [] val.t = "U64"    -> Some(to_string(val.n))
    [] OTHER            -> None

\* <Vec<T> as FromValue>::from_value: an array whose every element converts
VecI32FromValue(val) ==
  IF val.t = "Array" /\ \A i \in DOMAIN val.a : I32FromValue(val.a[i]).some
  THEN Some([i \in DOMAIN val.a |-> I32FromValue(val.a[i]).v])
  ELSE None

VecStringFromValue(val) ==
  IF val.t = "Array" /\ \A i \in DOMAIN val.a : StringFromValue(val.a[i]).some
  THEN Some([i \in DOMAIN val.a |-> StringFromValue(val.a[i]).v])
  ELSE None

UnwrapOr(opt, default) == IF opt.some THEN opt.v ELSE default

vec_from_params_i32(params, param) ==
  IF params[param].t = "Absent" THEN <<>>
  ELSE UnwrapOr(VecI32FromValue(params[param]), <<>>)

vec_from_params_string(params, param) ==
  IF params[param].t = "Absent" THEN <<>>
  ELSE UnwrapOr(VecStringFromValue(params[param]), <<>>)

\* a variant that reads an unparseable value as the number 0
i32_vec_from_params_zero(params, param) ==
  IF params[param].t = "Absent" THEN <<>>
  ELSE LET id == I32FromValue(params[param])
       IN  IF id.some THEN <<id.v>> ELSE <<0>>

i32_vec_from_params(params, param) ==
  IF params[param].t = "Absent" THEN <<>>
  ELSE LET id == I32FromValue(params[param])
       IN  IF id.some THEN <<id.v>> ELSE <<>>

(***************************************************************************)
(* The query tree of rs_es::query::Query, as far as the code builds it.    *)
(* A term value is tagged with its JSON type.                              *)
(***************************************************************************)
VStr(s)  == [t |-> "str", s |-> s]
VInt(n)  == [t |-> "int", n |-> n]
VBool(b) == [t |-> "bool", b |-> b]

build_term(field, value)   == [q |-> "term", field |-> field, value |-> value]
build_terms(field, values) == [q |-> "terms", field |-> field, values |-> values]
build_range(field, lte, gte) ==
  [q |-> "range", field |-> field, lte |-> lte, gte |-> gte]
build_bool(must, should, must_not) ==
  [q |-> "bool", must |-> must, should |-> should, must_not |-> must_not]
build_query_string(query, fields) ==
  [q |-> "query_string", query |-> query, fields |-> fields]

\* a variant that keeps the first value of the list only
VectorOfTerms_String_first(key, values) ==
  IF values = <<>> THEN <<>>
  ELSE <<build_terms(key, <<VStr(values[1])>>)>>

\* VectorOfTerms<String>::build_terms and VectorOfTerms<i32>::build_terms
VectorOfTerms_String(key, values) ==
  IF values = <<>> THEN <<>>
  ELSE <<build_terms(key, [i \in DOMAIN values |-> VStr(values[i])])>>

VectorOfTerms_i32(key, values) ==
  IF values = <<>> THEN <<>>
  ELSE <<build_terms(key, [i \in DOMAIN values |-> VInt(values[i])])>>

(***************************************************************************)
(* The index: its mapping and its documents.                               *)
(***************************************************************************)
ES_TYPE       == "talent"
SCORE_ES_TYPE == "score"

\* the fields of the hardcoded mapping that the queries refer to
DateFields == {"batch_starts_at", "batch_ends_at", "added_to_batch_at"}

\* the field a query path reads: a ".raw" sub-field holds the parent's values
SourceField(field) ==
  IF field = "desired_work_roles.raw" THEN "desired_work_roles" ELSE field

ArrayFields == {"desired_work_roles", "desired_work_roles_experience",
                "work_locations", "skills",
                "contacted_company_ids", "blocked_companies", "languages"}

\* the values the engine has indexed for a field of a document: none when the
\* document has no such field
FieldValues(source, field) ==
  LET f == SourceField(field) IN
  IF f \notin DOMAIN source THEN {}
  ELSE IF f \in ArrayFields THEN Elems(source[f])
  ELSE {source[f]}

\* a query value as the engine reads it for a field: a date field parses the
\* string (dateOptionalTime), the other fields take the JSON value
QueryValue(field, value) ==
  IF field \in DateFields
  THEN (IF value.t = "str" THEN ParseU64(value.s) ELSE None)
  ELSE CASE value.t = "str"  -> Some(value.s)
         [] value.t = "int"  -> Some(value.n)
         [] value.t = "bool" -> Some(value.b)

\* the kind of value a field of a document holds, to compare like with like
ValueKind(field, source) ==
  LET f == SourceField(field) IN
  IF f \in DateFields \/ f \in {"id", "weight", "contacted_company_ids",
                                 "blocked_companies", "job_id", "talent_id"}
  THEN "int"
  ELSE IF f = "accepted" THEN "bool" ELSE "str"

QueryKind(field, value) == IF field \in DateFields THEN "int" ELSE value.t

RECURSIVE QueryValid(_)
QueryValid(query) ==
  CASE query.q = "term"  -> QueryValue(query.field, query.value).some
    [] query.q = "terms" ->
         \A i \in DOMAIN query.values : QueryValue(query.field, query.values[i]).some
    [] query.q = "range" ->
         /\ query.lte.some => QueryValue(query.field, query.lte.v).some
         /\ query.gte.some => QueryValue(query.field, query.gte.v).some
    [] query.q = "bool"  ->
         /\ \A i \in DOMAIN query.must : QueryValid(query.must[i])
         /\ \A i \in DOMAIN query.should : QueryValid(query.should[i])
         /\ \A i \in DOMAIN query.must_not : QueryValid(query.must_not[i])
    [] query.q = "query_string" -> TRUE

HasValue(source, field, value) ==
  /\ ValueKind(field, source) = QueryKind(field, value)
  /\ QueryValue(field, value).v \in FieldValues(source, field)

RECURSIVE Matches(_, _)
Matches(query, source) ==
  CASE query.q = "term"  -> HasValue(source, query.field, query.value)
    [] query.q = "terms" ->
         \E i \in DOMAIN query.values : HasValue(source, query.field, query.values[i])
    [] query.q = "range" ->
         \E x \in FieldValues(source, query.field) :
           /\ query.lte.some => x <= QueryValue(query.field, query.lte.v).v
           /\ query.gte.some => x >= QueryValue(query.field, query.gte.v).v
    [] query.q = "bool"  ->
         /\ \A i \in DOMAIN query.must : Matches(query.must[i], source)
         /\ \A i \in DOMAIN query.must_not : ~Matches(query.must_not[i], source)
         /\ (query.must = <<>> /\ query.should # <<>>)
              => \E i \in DOMAIN query.should : Matches(query.should[i], source)
    [] query.q = "query_string" ->
         \E i \in DOMAIN query.fields :
           query.query \in FieldValues(source, query.fields[i])

(***************************************************************************)
(* The engine client (rs_es::Client).  es is the state of the engine: does *)
(* the index exist, was it created with the hardcoded mapping, and its     *)
(* documents in the order they were written (the order in which a one      *)
(* shard index returns hits that tie).  up says whether the call reaches   *)
(* the engine.                                                             *)
(***************************************************************************)
ENGINE_DOWN   == "engine unreachable"
NOT_FOUND     == "Unexpected status: 404 Not Found"
INDEX_MISSING == "IndexMissingException"
PARSE_FAILURE == "SearchParseException"
INDEX_EXISTS  == "IndexAlreadyExistsException"
DESERIALIZE   == "missing field"

EmptyEngine == [exists |-> FALSE, mapped |-> FALSE, docs |-> <<>>]

HasDoc(es, type, id) ==
  \E i \in DOMAIN es.docs : es.docs[i].type = type /\ es.docs[i].id = id

WithoutDoc(docs, type, id) ==
  SelectSeq(docs, LAMBDA d : ~(d.type = type /\ d.id = id))

\* one "index" action of a bulk request: the document replaces the one that
\* has its id and becomes the newest document
IndexDoc(docs, type, item) ==
  Append(WithoutDoc(docs, type, item.id),
         [type |-> type, id |-> item.id, source |-> item.source])

RECURSIVE IndexDocs(_, _, _)
IndexDocs(docs, type, items) ==
  IF items = <<>> THEN docs
  ELSE IndexDocs(IndexDoc(docs, type, Head(items)), type, Tail(items))

\* es.bulk(actions).with_index(index).with_doc_type(type).send()
EsBulk(es, type, items, up) ==
  IF ~up THEN [es |-> es, result |-> Err(ENGINE_DOWN)]
  ELSE [es     |-> [es EXCEPT !.exists = TRUE,
                              !.docs = IndexDocs(es.docs, type, items)],
        result |-> Ok(Len(items))]

\* es.delete(index, type, id).send(): any status but 200 is an error
EsDelete(es, type, id, up) ==
  IF ~up THEN [es |-> es, result |-> Err(ENGINE_DOWN)]
  ELSE IF ~HasDoc(es, type, id) THEN [es |-> es, result |-> Err(NOT_FOUND)]
  ELSE [es     |-> [es EXCEPT !.docs = WithoutDoc(es.docs, type, id)],
        result |-> Ok(id)]

\* es.delete_index(index)
EsDeleteIndex(es, up) ==
  IF ~up THEN [es |-> es, result |-> Err(ENGINE_DOWN)]
  ELSE IF ~es.exists THEN [es |-> es, result |-> Err(NOT_FOUND)]
  ELSE [es |-> EmptyEngine, result |-> Ok(TRUE)]

\* MappingOperation::new(es, index).with_mappings(..).with_settings(..).send()
EsCreateMapping(es, up) ==
  IF ~up THEN [es |-> es, result |-> Err(ENGINE_DOWN)]
  ELSE IF es.exists THEN [es |-> es, result |-> Err(INDEX_EXISTS)]
  ELSE [es     |-> [exists |-> TRUE, mapped |-> TRUE, docs |-> <<>>],
        result |-> Ok(TRUE)]

\* a hit comes before another when its sort key is greater (Order::Desc on
\* each sort field, in turn)
SortsBefore(sort, a, b) ==
  \E i \in DOMAIN sort :
    /\ a[sort[i]] > b[sort[i]]
    /\ \A j \in 1..(i - 1) : a[sort[j]] = b[sort[j]]

RECURSIVE InsertSorted(_, _, _)
InsertSorted(sort, sorted, d) ==
  IF sorted = <<>> THEN <<d>>
  ELSE IF SortsBefore(sort, d.source, Head(sorted).source)
       THEN <<d>> \o sorted
       ELSE <<Head(sorted)>> \o InsertSorted(sort, Tail(sorted), d)

RECURSIVE SortDocs(_, _)
SortDocs(sort, docs) ==
  IF docs = <<>> THEN <<>>
  ELSE InsertSorted(sort, SortDocs(sort, SubSeq(docs, 1, Len(docs) - 1)),
                    docs[Len(docs)])

\* the fields of a hit in which the keyword clause matched
HighlightOf(request, source) ==
  IF ~request.highlight.some THEN None
  ELSE Some({f \in Elems(request.highlight.v) :
               request.keywords \in FieldValues(source, f)})

\* es.search_query()...send::<Talent>() and ...send::<Score>()
EsSearch(es, request, up) ==
  IF ~up THEN Err(ENGINE_DOWN)
  ELSE IF ~(es.exists /\ request.index = request.default_index) THEN Err(INDEX_MISSING)
  ELSE IF ~QueryValid(request.query) THEN Err(PARSE_FAILURE)
  ELSE LET found  == SelectSeq(es.docs, LAMBDA d : Matches(request.query, d.source))
           sorted == IF request.sort.some THEN SortDocs(request.sort.v, found) ELSE found
           page   == Take(Drop(sorted, request.from), request.size)
       IN  IF \E i \in DOMAIN page : page[i].type # request.doc_type
           THEN Err(DESERIALIZE)
           ELSE
           Ok([total |-> Len(found),
               hits  |-> [i \in DOMAIN page |->
                            [source    |-> page[i].source,
                             highlight |-> HighlightOf(request, page[i].source)]]])

(***************************************************************************)
(* resources/talent.rs                                                     *)
(***************************************************************************)
DEFAULT_INDEX    == <<"i", "d", "x">>
DEFAULT_OFFSET   == 0
DEFAULT_PER_PAGE == 10
MIN_SCORE        == 56  \* hundredths

ParamKeys == {"keywords", "languages", "desired_work_roles",
              "professional_experience", "work_authorization",
              "work_locations", "current_location", "bookmarked_talents",
              "presented_talents", "company_id", "contacted_talents",
              "ignored_talents", "epoch", "index", "offset", "per_page",
              "maximum_salary", "features", "debug_es_query"}

EmptyParams == [k \in ParamKeys |-> Absent]

\* Utc::now().to_rfc3339()
to_rfc3339(now) == to_string(now)

\* a variant that takes the epoch as the latest batch start
visibility_rules_started(epoch, date_filter_present) ==
  IF date_filter_present
  THEN build_bool(<<build_term("accepted", VBool(TRUE)),
                    build_range("batch_starts_at", Some(VStr(epoch)), None)>>,
                  <<>>, <<>>)
  ELSE build_bool(<<build_term("accepted", VBool(TRUE)),
                    build_range("batch_starts_at", Some(VStr(epoch)), None),
                    build_range("batch_ends_at", None, Some(VStr(epoch)))>>,
                  <<>>, <<>>)

\* a variant that compares the batch window whether or not an epoch is given
visibility_rules_window(epoch, date_filter_present) ==
  build_bool(<<build_term("accepted", VBool(TRUE)),
               build_range("batch_starts_at", Some(VStr(epoch)), None),
               build_range("batch_ends_at", None, Some(VStr(epoch)))>>,
             <<>>, <<>>)

visibility_rules(epoch, date_filter_present) ==
  IF date_filter_present
  THEN build_bool(<<build_term("accepted", VBool(TRUE)),
                    build_term("batch_starts_at", VStr(epoch))>>, <<>>, <<>>)
  ELSE build_bool(<<build_term("accepted", VBool(TRUE)),
                    build_range("batch_starts_at", Some(VStr(epoch)), None),
                    build_range("batch_ends_at", None, Some(VStr(epoch)))>>,
                  <<>>, <<>>)

visibility_filters(epoch, presented_talents, date_filter_present) ==
  IF presented_talents # <<>>
  THEN LET presented_talents_filters ==
             build_bool(VectorOfTerms_i32("ids", presented_talents), <<>>, <<>>)
       IN  <<build_bool(<<>>,
                        <<visibility_rules(epoch, date_filter_present),
                          presented_talents_filters>>,
                        <<>>)>>
  ELSE <<visibility_rules(epoch, date_filter_present)>>

KeywordFields == <<"skills", "summary", "headline", "desired_work_roles",
                   "work_experiences", "educations">>

\* maybe_raw!: the fields of the keyword clause and of the highlight
maybe_raw(raw_query) ==
  IF raw_query
  THEN <<"skills.raw", "summary.raw", "headline.raw", "desired_work_roles.raw",
         "work_experiences.raw", "educations.raw">>
  ELSE KeywordFields

Contains(s, c) == \E i \in DOMAIN s : s[i] = c

\* a variant that takes every string, the empty one too, as keywords
full_text_search_blank(params) ==
  IF params["keywords"].t = "String"
  THEN Some(build_query_string(params["keywords"].s,
                               maybe_raw(Contains(params["keywords"].s, "\""))))
  ELSE None

full_text_search(params) ==
  IF params["keywords"].t = "String" /\ params["keywords"].s # <<>>
  THEN Some(build_query_string(params["keywords"].s,
                               maybe_raw(Contains(params["keywords"].s, "\""))))
  ELSE None

search_filters(params, epoch) ==
  LET company_id          == i32_vec_from_params(params, "company_id")
      date_filter_present == params["epoch"] # Absent
      keywords            == full_text_search(params)
      languages           == vec_from_params_string(params, "languages")
  IN  build_bool(
        Concat(<<
          IF keywords.some THEN <<keywords.v>> ELSE <<>>,
          <<build_bool([i \in DOMAIN languages |->
                          build_term("languages", VStr(languages[i]))],
                       <<>>, <<>>)>>,
          VectorOfTerms_String("desired_work_roles.raw",
            vec_from_params_string(params, "desired_work_roles")),
          VectorOfTerms_String("professional_experience",
            vec_from_params_string(params, "professional_experience")),
          VectorOfTerms_String("work_authorization",
            vec_from_params_string(params, "work_authorization")),
          VectorOfTerms_String("work_locations",
            vec_from_params_string(params, "work_locations")),
          VectorOfTerms_String("current_location",
            vec_from_params_string(params, "current_location")),
          VectorOfTerms_i32("id", vec_from_params_i32(params, "bookmarked_talents")),
          visibility_filters(epoch,
            i32_vec_from_params(params, "presented_talents"),
            date_filter_present)
        >>),
        <<>>,
        Concat(<<
          VectorOfTerms_i32("contacted_company_ids", company_id),
          VectorOfTerms_i32("blocked_companies", company_id),
          VectorOfTerms_i32("id", vec_from_params_i32(params, "contacted_talents")),
          VectorOfTerms_i32("id", vec_from_params_i32(params, "ignored_talents"))
        >>))

\* a variant that sorts by weight before the batch start
sorting_criteria_weight_first == <<"weight", "batch_starts_at", "added_to_batch_at">>

\* Talent::sorting_criteria
sorting_criteria == <<"batch_starts_at", "weight", "added_to_batch_at">>

\* RolesExperience::new
RolesExperience(role, experience) ==
  [role |-> role, experience |-> IF experience.some THEN experience.v ELSE <<>>]

\* impl From<Box<Talent>> for FoundTalent
FoundTalent(talent) ==
  [id                  |-> talent.id,
   work_locations      |-> talent.work_locations,
   current_location    |-> talent.current_location,
   salary_expectations |-> talent.salary_expectations,
   roles_experiences   |->
     [i \in DOMAIN talent.desired_work_roles |->
        RolesExperience(talent.desired_work_roles[i],
                        IF i \in DOMAIN talent.desired_work_roles_experience
                        THEN Some(talent.desired_work_roles_experience[i])
                        ELSE None)],
   batch_starts_at     |-> talent.batch_starts_at]

\* impl From<SearchHitsHitsResult<Talent>> for SearchResult
SearchResult(hit) ==
  [talent |-> FoundTalent(hit.source), highlight |-> hit.highlight]

EmptyResults == [total |-> 0, talents |-> <<>>]

\* a variant that reads offset when it is an integer only
SearchRequest_integer_offset(default_index, params, now) ==
  LET epoch == IF params["epoch"].t = "String" THEN params["epoch"].s
               ELSE to_rfc3339(now)
      index == IF params["index"].t = "String" THEN params["index"].s
               ELSE default_index
      keywords_present ==
        params["keywords"].t = "String" /\ params["keywords"].s # <<>>
      offset == CASE params["offset"].t = "U64" -> params["offset"].n
                  [] OTHER -> DEFAULT_OFFSET
      per_page == CASE params["per_page"].t = "String" ->
                         UnwrapOr(ParseU64(params["per_page"].s), DEFAULT_PER_PAGE)
                    [] params["per_page"].t = "U64" -> params["per_page"].n
                    [] OTHER -> DEFAULT_PER_PAGE
  IN  [default_index |-> default_index,
       index         |-> index,
       doc_type      |-> ES_TYPE,
       query         |-> search_filters(params, epoch),
       keywords      |-> IF keywords_present THEN params["keywords"].s ELSE <<>>,
       highlight     |-> IF keywords_present
                         THEN Some(maybe_raw(Contains(params["keywords"].s, "\"")))
                         ELSE None,
       sort          |-> IF keywords_present THEN None ELSE Some(sorting_criteria),
       min_score     |-> IF keywords_present THEN Some(MIN_SCORE) ELSE None,
       track_scores  |-> keywords_present,
       from          |-> offset,
       size          |-> per_page]

\* the request Talent::search sends
SearchRequest(default_index, params, now) ==
  LET epoch == IF params["epoch"].t = "String" THEN params["epoch"].s
               ELSE to_rfc3339(now)
      index == IF params["index"].t = "String" THEN params["index"].s
               ELSE default_index
      keywords_present ==
        params["keywords"].t = "String" /\ params["keywords"].s # <<>>
      offset == CASE params["offset"].t = "String" ->
                       UnwrapOr(ParseU64(params["offset"].s), DEFAULT_OFFSET)
                  [] params["offset"].t = "U64" -> params["offset"].n
                  [] OTHER -> DEFAULT_OFFSET
      per_page == CASE params["per_page"].t = "String" ->
                         UnwrapOr(ParseU64(params["per_page"].s), DEFAULT_PER_PAGE)
                    [] params["per_page"].t = "U64" -> params["per_page"].n
                    [] OTHER -> DEFAULT_PER_PAGE
  IN  [default_index |-> default_index,
       index         |-> index,
       doc_type      |-> ES_TYPE,
       query         |-> search_filters(params, epoch),
       keywords      |-> IF keywords_present THEN params["keywords"].s ELSE <<>>,
       highlight     |-> IF keywords_present
                         THEN Some(maybe_raw(Contains(params["keywords"].s, "\"")))
                         ELSE None,
       sort          |-> IF keywords_present THEN None ELSE Some(sorting_criteria),
       min_score     |-> IF keywords_present THEN Some(MIN_SCORE) ELSE None,
       track_scores  |-> keywords_present,
       from          |-> offset,
       size          |-> per_page]

\* Talent::search
Talent_search(es, default_index, params, now, up) ==
  LET result == EsSearch(es, SearchRequest(default_index, params, now), up)
  IN  IF result.ok
      THEN IF result.v.total = 0 THEN EmptyResults
           ELSE [total   |-> result.v.total,
                 talents |-> [i \in DOMAIN result.v.hits |->
                                SearchResult(result.v.hits[i])]]
      ELSE EmptyResults

\* a variant that lets the engine number the documents
Talent_index_numbered(es, resources, up) ==
  EsBulk(es, ES_TYPE,
         [i \in DOMAIN resources |->
            [id |-> to_string(Len(es.docs) + i), source |-> resources[i]]],
         up)

\* Talent::index
Talent_index(es, resources, up) ==
  EsBulk(es, ES_TYPE,
         [i \in DOMAIN resources |->
            [id |-> to_string(resources[i].id), source |-> resources[i]]],
         up)

\* a variant that acknowledges the delete and leaves the document
Talent_delete_acknowledged(es, id, up) == [es |-> es, result |-> Ok(id)]

\* Talent::delete
Talent_delete(es, id, up) == EsDelete(es, ES_TYPE, id, up)

\* a variant that gives up when delete_index fails
Talent_reset_index_checked(es, upDelete, upCreate) ==
  LET deleted == EsDeleteIndex(es, upDelete)
  IN  IF deleted.result.ok THEN EsCreateMapping(deleted.es, upCreate)
      ELSE deleted

\* Talent::reset_index: the result of delete_index is dropped
Talent_reset_index(es, upDelete, upCreate) ==
  EsCreateMapping(EsDeleteIndex(es, upDelete).es, upCreate)

(***************************************************************************)
(* resources/score.rs                                                      *)
(***************************************************************************)
ENGINE_DEFAULT_SIZE == 10

\* SearchBuilder::to_query
to_query(search_builder) ==
  build_bool(
    (IF search_builder.job_id.some
     THEN <<build_term("job_id", VInt(search_builder.job_id.v))>> ELSE <<>>)
    \o
    (IF search_builder.talent_id.some
     THEN <<build_term("talent_id", VInt(search_builder.talent_id.v))>> ELSE <<>>),
    <<>>, <<>>)

\* Score::search
Score_search(es, index, search_builder, up) ==
  LET result == EsSearch(es,
                  [default_index |-> index, index |-> index,
                   doc_type |-> SCORE_ES_TYPE,
                   query |-> to_query(search_builder), keywords |-> <<>>,
                   highlight |-> None, sort |-> None, min_score |-> None,
                   track_scores |-> FALSE, from |-> 0,
                   size |-> ENGINE_DEFAULT_SIZE],
                  up)
  IN  IF result.ok
      THEN [total  |-> result.v.total,
            scores |-> [i \in DOMAIN result.v.hits |-> result.v.hits[i].source]]
      ELSE [total |-> 0, scores |-> <<>>]

\* Score::delete(&self, es, index)
Score_delete(es, score, up) == EsDelete(es, SCORE_ES_TYPE, score.request_id, up)

\* <Score as Resource>::index
Score_index(es, resources, up) ==
  EsBulk(es, SCORE_ES_TYPE,
         [i \in DOMAIN resources |->
            [id |-> resources[i].request_id, source |-> resources[i]]],
         up)

(***************************************************************************)
(* server.rs: authorization                                                *)
(***************************************************************************)
AUTH_READ  == "yxxz7oap7rsf67zl"
AUTH_WRITE == "6po2okn3ddwv6ili"

\* the token lifetimes of the configuration, in time units of the model
ReadLifetime  == 2
WriteLifetime == 2

TOTP_DIGITS == 6

RECURSIVE Pow10(_)
Pow10(n) == IF n = 0 THEN 1 ELSE 10 * Pow10(n - 1)

\* HMAC-SHA1 of the counter under the secret, truncated (RFC 4226): an
\* idealised hash, different for different (secret, counter)
hotp_raw(secret, counter, digits) ==
  (11 + 2 * counter + (IF secret = AUTH_READ THEN 0 ELSE 1)) % Pow10(digits)

\* oath::totp_raw_now(secret, digits, epoch, time_step, hash)
totp_raw_now(secret, digits, epoch, time_step, now) ==
  hotp_raw(secret, (now - epoch) \div time_step, digits)

TOKEN_PREFIX == <<"t", "o", "k", "e", "n", " ">>

\* the positions at which pat occurs in s
Occurrences(s, pat) ==
  {i \in 1..(Len(s) - Len(pat) + 1) : SubSeq(s, i, i + Len(pat) - 1) = pat}

\* header.split("token ").collect::<Vec<&str>>().last()
SplitLast(s, pat) ==
  IF Occurrences(s, pat) = {} THEN s
  ELSE LET i == CHOOSE k \in Occurrences(s, pat) :
                  \A j \in Occurrences(s, pat) : j <= k
       IN  SubSeq(s, i + Len(pat), Len(s))

\* authorization!($trait_name, $mode)::is_authorized
is_authorized(auth_config, secret, headers, token_lifetime, now) ==
  IF auth_config.enabled = FALSE THEN TRUE
  ELSE IF ~headers.Authorization.some THEN FALSE
  ELSE IF ~headers.Authorization.v.utf8 THEN FALSE
  ELSE LET token == ParseU64(SplitLast(headers.Authorization.v.text, TOKEN_PREFIX))
       IN  IF token.some
           THEN totp_raw_now(secret, TOTP_DIGITS, 0, token_lifetime, now) = token.v
           ELSE FALSE

\* a variant that checks the code of the write secret
ReadableEndpoint_is_authorized_write(config, headers, now) ==
  is_authorized(config.auth, config.auth.write, headers,
                config.tokens.lifetime.write, now)

ReadableEndpoint_is_authorized(config, headers, now) ==
  is_authorized(config.auth, config.auth.read, headers,
                config.tokens.lifetime.read, now)

\* a variant that checks the code of the read secret
WritableEndpoint_is_authorized_read(config, headers, now) ==
  is_authorized(config.auth, config.auth.read, headers,
                config.tokens.lifetime.read, now)

WritableEndpoint_is_authorized(config, headers, now) ==
  is_authorized(config.auth, config.auth.write, headers,
                config.tokens.lifetime.write, now)

(***************************************************************************)
(* server.rs: responses and handlers.  A handler yields the engine state   *)
(* it leaves, its response and the engine calls it made.                   *)
(***************************************************************************)
EmptyBody   == [kind |-> "empty"]
JsonBody(v) == [kind |-> "json", value |-> v]
TextBody(m) == [kind |-> "text", text |-> m]

Response(status, body) == [status |-> status, body |-> body]

\* unauthorized!()
unauthorized == Response(401, EmptyBody)

\* the Err arm of try_or_422!
error_422(error_message) == Response(422, JsonBody([error |-> error_message]))

Outcome(es, response, calls) == [es |-> es, response |-> response, calls |-> calls]

\* a variant that answers 422 when the engine rejects the search
SearchableHandler_handle_strict(config, es, now, req, up) ==
  IF ~ReadableEndpoint_is_authorized(config, req.headers, now)
  THEN Outcome(es, unauthorized, <<>>)
  ELSE IF ~req.params.ok
  THEN Outcome(es, error_422(req.params.msg), <<>>)
  ELSE LET found == EsSearch(es, SearchRequest(config.es.index, req.params.v, now), up)
       IN  IF ~found.ok
           THEN Outcome(es, error_422(found.msg), <<"search">>)
           ELSE Outcome(es,
                        Response(200, JsonBody(Talent_search(es, config.es.index,
                                                             req.params.v, now, up))),
                        <<"search">>)

\* SearchableHandler::<Talent>::handle
SearchableHandler_handle(config, es, now, req, up) ==
  IF ~ReadableEndpoint_is_authorized(config, req.headers, now)
  THEN Outcome(es, unauthorized, <<>>)
  ELSE IF ~req.params.ok
  THEN Outcome(es, error_422(req.params.msg), <<>>)
  ELSE Outcome(es,
               Response(200, JsonBody(Talent_search(es, config.es.index,
                                                    req.params.v, now, up))),
               <<"search">>)

\* the fields of the two resources: #[derive(Deserialize)] requires each of
\* them and drops the fields of the payload that the struct does not have
TalentFields ==
  {"id", "accepted", "desired_work_roles", "desired_work_roles_experience",
   "professional_experience", "work_locations", "current_location",
   "work_authorization", "skills", "contacted_company_ids", "batch_starts_at",
   "batch_ends_at", "added_to_batch_at", "weight", "blocked_companies",
   "salary_expectations", "languages"}

ScoreFields == {"request_id", "job_id", "talent_id", "score"}

StructFields(resource) == IF resource = ES_TYPE THEN TalentFields ELSE ScoreFields

\* serde_json::from_str::<Vec<R>>(&payload)
from_str(payload, resource) ==
  IF ~(payload.json = "array" /\ payload.of = resource)
  THEN Err("invalid type")
  ELSE IF \E i \in DOMAIN payload.items :
            ~(StructFields(resource) \subseteq DOMAIN payload.items[i])
  THEN Err(DESERIALIZE)
  ELSE Ok([i \in DOMAIN payload.items |->
             [f \in StructFields(resource) |-> payload.items[i][f]]])

\* R::index for the two resources
Resource_index(resource, es, resources, up) ==
  IF resource = ES_TYPE THEN Talent_index(es, resources, up)
  ELSE Score_index(es, resources, up)

\* IndexableHandler::<R>::handle
IndexableHandler_handle(resource, config, es, now, req, up) ==
  IF ~WritableEndpoint_is_authorized(config, req.headers, now)
  THEN Outcome(es, unauthorized, <<>>)
  ELSE LET resources == from_str(req.body, resource) IN
       IF ~resources.ok
       THEN Outcome(es, error_422(resources.msg), <<>>)
       ELSE LET indexed == Resource_index(resource, es, resources.v, up) IN
            IF ~indexed.result.ok
            THEN Outcome(indexed.es, error_422(indexed.result.msg), <<"bulk">>)
            ELSE Outcome(indexed.es, Response(201, EmptyBody), <<"bulk">>)

\* a variant that answers 204 whatever the engine answered
DeletableHandler_handle_lenient(config, es, now, req, up) ==
  IF ~WritableEndpoint_is_authorized(config, req.headers, now)
  THEN Outcome(es, unauthorized, <<>>)
  ELSE IF ~req.id.some
  THEN Outcome(es, error_422("DELETE#:id not found"), <<>>)
  ELSE Outcome(Talent_delete(es, req.id.v, up).es, Response(204, EmptyBody),
               <<"delete">>)

\* DeletableHandler::<Talent>::handle
DeletableHandler_handle(config, es, now, req, up) ==
  IF ~WritableEndpoint_is_authorized(config, req.headers, now)
  THEN Outcome(es, unauthorized, <<>>)
  ELSE IF ~req.id.some
  THEN Outcome(es, error_422("DELETE#:id not found"), <<>>)
  ELSE LET deleted == Talent_delete(es, req.id.v, up) IN
       IF deleted.result.ok
       THEN Outcome(deleted.es, Response(204, EmptyBody), <<"delete">>)
       ELSE Outcome(deleted.es, Response(422, TextBody(deleted.result.msg)),
                    <<"delete">>)

\* ResettableHandler::<Talent>::handle
ResettableHandler_handle(config, es, now, req, upDelete, upCreate) ==
  IF ~WritableEndpoint_is_authorized(config, req.headers, now)
  THEN Outcome(es, unauthorized, <<>>)
  ELSE LET reset == Talent_reset_index(es, upDelete, upCreate) IN
       IF reset.result.ok
       THEN Outcome(reset.es, Response(204, EmptyBody),
                    <<"delete_index", "create_mapping">>)
       ELSE Outcome(reset.es, Response(422, TextBody(reset.result.msg)),
                    <<"delete_index", "create_mapping">>)

(***************************************************************************)
(* Inputs of the model: the talents and scores a client posts, the query   *)
(* parameters and the request headers.                                     *)
(***************************************************************************)
BaseTalent(id) ==
  [id                      |-> id,
   accepted                |-> TRUE,
   desired_work_roles      |-> <<>>,
   desired_work_roles_experience |-> <<>>,
   professional_experience |-> <<"8", "+">>,
   work_locations          |-> << <<"B">> >>,
   current_location        |-> <<"B">>,
   work_authorization      |-> <<"y", "e", "s">>,
   skills                  |-> <<>>,
   contacted_company_ids   |-> <<>>,
   batch_starts_at         |-> 1,
   batch_ends_at           |-> MaxTime,
   added_to_batch_at       |-> 1,
   weight                  |-> 0,
   blocked_companies       |-> <<>>,
   salary_expectations     |-> <<>>,
   languages               |-> << <<"e", "n">> >>]

\* the talents a client may post under an id: two per id, and which two
\* depends on the id
TalentsOf(id) ==
  LET b == BaseTalent(id) IN
  CASE id % 3 = 1 -> {b, [b EXCEPT !.accepted = FALSE]}
    [] id % 3 = 2 -> {[b EXCEPT !.batch_starts_at = 2, !.batch_ends_at = 1],
                      [b EXCEPT !.weight = 1, !.skills = << <<"r">> >>]}
    [] id % 3 = 0 -> {[b EXCEPT !.batch_starts_at = 2, !.added_to_batch_at = 2],
                      [b EXCEPT !.batch_ends_at = 1]}

Talents == UNION {TalentsOf(id) : id \in Ids}

\* sequences of at most n elements of S
RECURSIVE SeqsUpTo(_, _)
SeqsUpTo(S, n) ==
  IF n = 0 THEN {<<>>}
  ELSE LET shorter == SeqsUpTo(S, n - 1)
       IN  shorter \cup {Append(q, x) : q \in shorter, x \in S}

NoHeaders == [Authorization |-> None]
NoBody    == [json |-> "none", of |-> "none", items |-> <<>>]

ArrayBody(resource, items) == [json |-> "array", of |-> resource, items |-> items]
ObjectBody                 == [json |-> "object", of |-> "none", items |-> <<>>]

\* the batches of talents a client posts: the documents of one id, in any
\* order and number, and the first documents of consecutive ids
TalentBodies ==
  {ArrayBody(ES_TYPE, items) :
     items \in UNION {SeqsUpTo(TalentsOf(id), MaxBatch) : id \in Ids}
                \cup {[i \in 1..n |-> BaseTalent(i)] : n \in 2..MaxBatch}}

IdStrings == {to_string(id) : id \in Ids}

P1(k, v) == [EmptyParams EXCEPT ![k] = v]
P2(k1, v1, k2, v2) == [EmptyParams EXCEPT ![k1] = v1, ![k2] = v2]

\* the ids that the id-valued parameters of a search name
ProbeIds == {1, 2}

\* the parameter maps of the searches
SearchParams ==
  {EmptyParams}
  \cup {P1("epoch", Str(to_string(t))) : t \in 1..MaxTime}
  \cup {P1("epoch", Str(<<"x">>)), P1("epoch", Arr(<<Str(<<"1">>)>>))}
  \cup {P1("presented_talents", Str(to_string(id))) : id \in ProbeIds}
  \cup {P2("presented_talents", U64(id), "epoch", Str(<<"2">>)) : id \in ProbeIds}
  \cup {P1("bookmarked_talents", Arr(<<Str(to_string(id))>>)) : id \in ProbeIds}
  \cup {P2("presented_talents", Str(to_string(id)),
           "ignored_talents", Arr(<<U64(1)>>)) : id \in ProbeIds}
  \cup {P1("index", Str(<<"l", "o", "l">>)),
        P1("keywords", Str(<<"r">>)),
        P2("per_page", U64(1), "offset", Str(<<"1">>))}

\* the scores a client posts
Scores ==
  {[request_id |-> r, job_id |-> 1, talent_id |-> t, score |-> 54] :
     r \in {<<"A">>, <<"B">>}, t \in ProbeIds}

\* the Authorization headers of the requests: none, "token <code>" for the
\* codes of both secrets at every time step, a bare code, a token that is not
\* a number, and bytes that are not UTF-8
Utf8(text) == [utf8 |-> TRUE, text |-> text]

Steps(lifetime) == 0..(MaxTime \div lifetime)

Codes ==
  {hotp_raw(AUTH_READ, c, TOTP_DIGITS) : c \in Steps(ReadLifetime)}
  \cup {hotp_raw(AUTH_WRITE, c, TOTP_DIGITS) : c \in Steps(WriteLifetime)}

TokenHeader(code) ==
  [Authorization |-> Some(Utf8(TOKEN_PREFIX \o to_string(code)))]

Headers ==
  {NoHeaders}
  \cup {TokenHeader(code) : code \in Codes}
  \cup {[Authorization |-> Some(Utf8(to_string(hotp_raw(AUTH_READ, 0, TOTP_DIGITS))))],
        [Authorization |-> Some(Utf8(TOKEN_PREFIX \o <<"x">>))],
        [Authorization |-> Some([utf8 |-> FALSE, text |-> <<>>])]}

(***************************************************************************)
(* The state: the configuration the handlers were built with, the engine,  *)
(* the clock, and the last request with its response.                      *)
(***************************************************************************)
\* config, es, now and last are the configuration, the engine, the clock and
\* the request handled last; mutex and threads are the lock around the shared
\* client and the worker threads of the specification that interleaves the
\* steps of the handlers; logger is the logger installed at start-up
VARIABLES config, es, now, last, mutex, threads, logger

vars == <<config, es, now, last, mutex, threads, logger>>

Config(enabled) ==
  [auth   |-> [enabled |-> enabled, read |-> AUTH_READ, write |-> AUTH_WRITE],
   tokens |-> [lifetime |-> [read |-> ReadLifetime, write |-> WriteLifetime]],
   es     |-> [index |-> DEFAULT_INDEX],
   monitor |-> None]

Request(headers, params, body, id) ==
  [headers |-> headers, params |-> params, body |-> body, id |-> id]

NoRequest == Request(NoHeaders, Ok(EmptyParams), NoBody, None)

\* the worker threads of the server
MaxThreads == 2
Threads == 1..MaxThreads

\* Mutex::new(client): nobody holds the lock, no holder has panicked
Unlocked == [holder |-> 0, poisoned |-> FALSE]

\* a worker that waits for a request
IdleThread ==
  [handler |-> "none", req |-> NoRequest, pc |-> "idle", calls |-> 0,
   result |-> Ok(TRUE), response |-> Response(0, EmptyBody), panic |-> "none"]

\* no logger is installed yet
NoLogger == [monitor |-> "none", panicked |-> FALSE, records |-> <<>>]

\* one request is handled at a time, from its first step to its last
OneAtATime ==
  /\ mutex = Unlocked
  /\ threads = [t \in Threads |-> IdleThread]
  /\ logger = NoLogger

Handled(handler, resource, req, ups, outcome) ==
  /\ es' = outcome.es
  /\ last' = [handler  |-> handler,
              resource |-> resource,
              request  |-> req,
              at       |-> now,
              up       |-> ups,
              response |-> outcome.response,
              calls    |-> outcome.calls]
  /\ UNCHANGED <<config, now, mutex, threads, logger>>

FreshIndex == [exists |-> TRUE, mapped |-> TRUE, docs |-> <<>>]

NoLast ==
  [handler |-> "none", resource |-> ES_TYPE, request |-> NoRequest,
   at |-> 0, up |-> <<>>, response |-> Response(0, EmptyBody), calls |-> <<>>]

\* the handlers are built without authentication and the index was reset
Init ==
  /\ config = Config(FALSE)
  /\ es = FreshIndex
  /\ now = 1
  /\ last = NoLast
  /\ OneAtATime

\* GET /talents
Get(Hs, Ps, Ups) ==
  \E h \in Hs, p \in Ps, up \in Ups :
    LET req == Request(h, p, NoBody, None)
    IN  Handled("search", ES_TYPE, req, <<up>>,
                SearchableHandler_handle(config, es, now, req, up))

\* POST /talents and POST /scores
Post(resource, Hs, Bs, Ups) ==
  \E h \in Hs, b \in Bs, up \in Ups :
    LET req == Request(h, Ok(EmptyParams), b, None)
    IN  Handled("index", resource, req, <<up>>,
                IndexableHandler_handle(resource, config, es, now, req, up))

\* DELETE /talents/:id
Delete(Hs, Is, Ups) ==
  \E h \in Hs, id \in Is, up \in Ups :
    LET req == Request(h, Ok(EmptyParams), NoBody, Some(id))
    IN  Handled("delete", ES_TYPE, req, <<up>>,
                DeletableHandler_handle(config, es, now, req, up))

\* DELETE /talents
Reset(Hs, Ups) ==
  \E h \in Hs, upDelete \in Ups, upCreate \in Ups :
    LET req == Request(h, Ok(EmptyParams), NoBody, None)
    IN  Handled("reset", ES_TYPE, req, <<upDelete, upCreate>>,
                ResettableHandler_handle(config, es, now, req, upDelete, upCreate))

\* time passes
Tick ==
  /\ now < MaxTime
  /\ now' = now + 1
  /\ UNCHANGED <<config, es, last, mutex, threads, logger>>

Next ==
  \/ Get({NoHeaders}, {Ok(p) : p \in SearchParams}, {TRUE})
  \/ Post(ES_TYPE, {NoHeaders}, TalentBodies, {TRUE})
  \/ Delete({NoHeaders}, IdStrings, {TRUE})
  \/ Reset({NoHeaders}, {TRUE})
  \/ Tick

Spec == Init /\ [][Next]_vars

(***************************************************************************)
(* The handlers behind authentication, with an engine that can fail.       *)
(***************************************************************************)
AuthBodies == {ArrayBody(ES_TYPE, <<BaseTalent(1)>>), ObjectBody}

AuthParams ==
  {Ok(EmptyParams), Ok(P1("index", Str(<<"l", "o", "l">>))),
   Ok(P1("epoch", Str(<<"x">>))), Err("CannotInsert")}

InitAuth ==
  /\ config = Config(TRUE)
  /\ es = EmptyEngine
  /\ now = 1
  /\ last = NoLast
  /\ OneAtATime

NextAuth ==
  \/ Get(Headers, AuthParams, BOOLEAN)
  \/ Post(ES_TYPE, Headers, AuthBodies, BOOLEAN)
  \/ Delete(Headers, {<<"1">>, <<"x">>}, BOOLEAN)
  \/ Reset(Headers, BOOLEAN)
  \/ Tick

SpecAuth == InitAuth /\ [][NextAuth]_vars

(***************************************************************************)
(* Talents and their scores in one index.                                  *)
(***************************************************************************)
ScoreTalentBodies ==
  {ArrayBody(ES_TYPE, <<BaseTalent(id)>>) : id \in ProbeIds}

ScoreBodies ==
  {ArrayBody(SCORE_ES_TYPE, items) : items \in SeqsUpTo(Scores, MaxBatch) \ {<<>>}}

NextScore ==
  \/ Get({NoHeaders}, {Ok(EmptyParams)}, {TRUE})
  \/ Post(ES_TYPE, {NoHeaders}, ScoreTalentBodies, {TRUE})
  \/ Post(SCORE_ES_TYPE, {NoHeaders}, ScoreBodies, {TRUE})
  \/ Delete({NoHeaders}, {to_string(id) : id \in ProbeIds}, {TRUE})
  \/ Reset({NoHeaders}, {TRUE})

SpecScore == Init /\ [][NextScore]_vars

(***************************************************************************)
(* A populated index: the state after Talent::reset_index and one          *)
(* Talent::index of a batch, as the tests build it, with enough talents to *)
(* fill more than one page.                                                *)
(***************************************************************************)
MaxRoster == 13

\* the talent of the batch with the given id; talent 3 is not accepted and
\* the batch of talent 5 has ended
RosterTalent(id) ==
  [BaseTalent(id) EXCEPT !.accepted          = (id # 3),
                         !.batch_starts_at   = id % 2,
                         !.batch_ends_at     = IF id = 5 THEN 0 ELSE MaxTime,
                         !.weight            = (id \div 2) % 2,
                         !.added_to_batch_at = (id \div 4) % 2]

Roster(n) == [id \in 1..n |-> RosterTalent(id)]

PageParams ==
  {Ok(EmptyParams), Ok(P1("per_page", U64(2))),
   Ok(P2("per_page", Str(<<"2">>), "offset", U64(2)))}

InitPage ==
  /\ config = Config(FALSE)
  /\ es \in {Talent_index(FreshIndex, Roster(n), TRUE).es : n \in 0..MaxRoster}
  /\ now = 1
  /\ last = NoLast
  /\ OneAtATime

\* a talent of the batch is posted again on its own
PageBodies == {ArrayBody(ES_TYPE, <<RosterTalent(id)>>) : id \in ProbeIds}

NextPage ==
  \/ Get({NoHeaders}, PageParams, {TRUE})
  \/ Post(ES_TYPE, {NoHeaders}, PageBodies, {TRUE})
  \/ Delete({NoHeaders}, {to_string(id) : id \in ProbeIds}, {TRUE})
  \/ Tick

SpecPage == InitPage /\ [][NextPage]_vars

(***************************************************************************)
(* The populated index and the searches that page through it: offset and   *)
(* per_page as integers and as strings, strings that are not numbers, a    *)
(* page size of zero and offsets at and past the end.                      *)
(***************************************************************************)
PagingParams ==
  {P2("offset", offset, "per_page", per_page) :
     offset   \in {Absent, U64(0), Str(<<"3">>), U64(6), Str(<<"x">>),
                   U64(MaxRoster), Str(to_string(MaxRoster + 1))},
     per_page \in {Absent, U64(3), Str(<<"3">>), Str(<<"x">>),
                   U64(0), Str(<<"0">>)}}

NextPaging ==
  \/ Get({NoHeaders}, {Ok(p) : p \in PagingParams}, {TRUE})
  \/ Tick

SpecPaging == InitPage /\ [][NextPaging]_vars

(***************************************************************************)
(* A small index for the filters: three talents that differ in every field *)
(* a filter reads, posted as one batch, and searches that give each filter *)
(* alone and several filters together.                                     *)
(***************************************************************************)
DevOps    == <<"D">>
Fullstack == <<"F">>
Berlin    == <<"B">>
Amsterdam == <<"A">>
English   == <<"e", "n">>
German    == <<"d", "e">>
Rust      == <<"r">>
Java      == <<"j">>
BAND_0_1  == <<"0", ".", ".", "1">>
BAND_2_4  == <<"2", ".", ".", "4">>
NO_FULLTEXT_SEARCH == <<"n", "o", "_", "f", "u", "l", "l", "t", "e", "x", "t",
                        "_", "s", "e", "a", "r", "c", "h">>
QuotedRust == <<"\"">> \o Rust \o <<"\"">>
KEYWORDS_SHOULD == <<"k", "e", "y", "w", "o", "r", "d", "s", "_",
                     "s", "h", "o", "u", "l", "d">>

SalaryExpectations(minimum, city) == [minimum |-> Some(minimum), city |-> city]

\* talent 3 leaves its batch after instant 1 and gives one experience for
\* two desired roles
FilterTalent(id) ==
  LET b == BaseTalent(id) IN
  CASE id = 1 ->
         [b EXCEPT !.desired_work_roles            = <<DevOps>>,
                   !.desired_work_roles_experience = <<BAND_0_1>>,
                   !.skills                        = <<Rust>>,
                   !.contacted_company_ids         = <<6>>,
                   !.salary_expectations = <<SalaryExpectations(4, Berlin)>>]
    [] id = 2 ->
         [b EXCEPT !.desired_work_roles            = <<Fullstack, DevOps>>,
                   !.desired_work_roles_experience = <<BAND_2_4, BAND_0_1>>,
                   !.professional_experience       = BAND_2_4,
                   !.work_locations                = <<Amsterdam, Berlin>>,
                   !.current_location              = Amsterdam,
                   !.work_authorization            = <<"n", "o">>,
                   !.skills                        = <<Java>>,
                   !.blocked_companies             = <<6>>,
                   !.weight                        = 1,
                   !.languages                     = <<English, German>>,
                   !.salary_expectations = <<SalaryExpectations(2, Amsterdam),
                                             SalaryExpectations(5, Berlin)>>]
    [] OTHER ->
         [b EXCEPT !.desired_work_roles            = <<Fullstack, DevOps>>,
                   !.desired_work_roles_experience = <<BAND_2_4>>,
                   !.work_locations                = <<Amsterdam>>,
                   !.skills                        = <<Rust>>,
                   !.batch_ends_at                 = 1,
                   !.languages                     = <<German>>,
                   !.salary_expectations = <<SalaryExpectations(2, Amsterdam)>>]

FilterIds == {1, 2, 3}

FilterRoster == [id \in FilterIds |-> FilterTalent(id)]

\* the structured form of the desired roles of a talent
DesiredRoles(talent) ==
  [i \in DOMAIN talent.desired_work_roles |->
     [role       |-> talent.desired_work_roles[i],
      experience |-> talent.desired_work_roles_experience[i]]]

\* talent 1 as a payload that gives the desired roles in the structured form
\* only, and as a payload that gives both forms
StructuredTalent ==
  [f \in (TalentFields \ {"desired_work_roles", "desired_work_roles_experience"})
          \cup {"desired_roles"} |->
     IF f = "desired_roles" THEN DesiredRoles(FilterTalent(1))
     ELSE FilterTalent(1)[f]]

BothFormsTalent ==
  [f \in TalentFields \cup {"desired_roles"} |->
     IF f = "desired_roles" THEN DesiredRoles(FilterTalent(1))
     ELSE FilterTalent(1)[f]]

FilterBodies ==
  {ArrayBody(ES_TYPE, FilterRoster),
   ArrayBody(ES_TYPE, <<StructuredTalent>>),
   ArrayBody(ES_TYPE, <<BothFormsTalent>>)}

\* the values of the filters that take a list of strings
RoleLists     == {Arr(<<Str(DevOps)>>), Arr(<<Str(Fullstack), Str(<<"Q">>)>>)}
LocationLists == {Arr(<<Str(Amsterdam)>>), Arr(<<Str(Amsterdam), Str(Berlin)>>)}
LanguageLists == {Arr(<<Str(English), Str(German)>>)}
BookmarkLists == {Arr(<<Str(<<"2">>), U64(3)>>)}

FilterParams ==
  {EmptyParams}
  \cup {P1("keywords", v) :
          v \in {Str(<<>>), Str(Rust), Str(<<"z">>), U64(7), Arr(<<Str(Rust)>>)}}
  \cup {P2("keywords", Str(k), "features", Arr(<<Str(KEYWORDS_SHOULD)>>)) :
          k \in {Rust, <<"z">>}}
  \cup {P1("desired_work_roles", Arr(<<Str(DevOps \o <<":">> \o m)>>)) :
          m \in {<<"0">>, <<"3">>}}
  \cup {P1("maximum_salary", v) : v \in {U64(3), Str(<<"3">>), Str(<<"x">>)}}
  \cup {P2("maximum_salary", U64(3), "work_locations", Arr(<<Str(Berlin)>>))}
  \cup {P1(k, v) :
          k \in {"contacted_talents", "ignored_talents"},
          v \in {Arr(<<Str(<<"1">>)>>), Arr(<<U64(1), U64(2)>>),
                 Str(<<"1">>), Str(<<"1", ",", " ", "2">>)}}
  \cup {P1("company_id", v) : v \in {U64(6), Str(<<"6">>)}}
  \cup {P1("debug_es_query", Str(<<"t", "r", "u", "e">>))}
  \cup {P1("keywords", Str(QuotedRust))}
  \cup {P1("company_id", v) :
          v \in {Str(<<>>), Str(<<"m">>), Arr(<<Str(<<"m">>)>>), Arr(<<U64(6)>>)}}
  \cup {P2("work_locations", Arr(<<Str(Berlin)>>), k, v) :
          k \in {"company_id", "presented_talents"},
          v \in {Str(<<"m">>), Arr(<<U64(1)>>)}}
  \cup {P1("languages", Str(English)),
        P1("work_locations", Arr(<<Arr(<<Str(Berlin)>>)>>)),
        P1("current_location", Arr(<<>>)),
        P1("bookmarked_talents", Arr(<<U64(1), Str(<<"x">>)>>)),
        P1("bookmarked_talents", U64(1)),
        P1("contacted_talents", Arr(<<Str(<<"x">>), U64(1)>>))}
  \cup {P2("keywords", Str(k), "features", Arr(<<Str(NO_FULLTEXT_SEARCH)>>)) :
          k \in {Rust, QuotedRust}}
  \cup {P1("professional_experience", Arr(<<Str(BAND_2_4), Str(BAND_0_1)>>)),
        P1("work_authorization", Arr(<<Str(<<"n", "o">>)>>)),
        P1("languages", Arr(<<Str(English)>>)),
        P1("current_location", Arr(<<Str(Amsterdam), Str(Berlin)>>)),
        P2("current_location", Arr(<<Str(Berlin)>>),
           "work_authorization", Arr(<<Str(<<"y", "e", "s">>)>>))}
  \cup {[EmptyParams EXCEPT !["desired_work_roles"] = roles,
                            !["work_locations"]     = locations,
                            !["languages"]          = languages,
                            !["bookmarked_talents"] = bookmarked] :
          roles      \in {Absent} \cup RoleLists,
          locations  \in {Absent} \cup LocationLists,
          languages  \in {Absent} \cup LanguageLists,
          bookmarked \in {Absent} \cup BookmarkLists}

NextFilter ==
  \/ Get({NoHeaders}, {Ok(p) : p \in FilterParams}, {TRUE})
  \/ Post(ES_TYPE, {NoHeaders}, FilterBodies, {TRUE})
  \/ Delete({NoHeaders}, {to_string(id) : id \in FilterIds}, {TRUE})
  \/ Tick

SpecFilter == Init /\ [][NextFilter]_vars

(***************************************************************************)
(* The server under concurrent requests.  Server::start builds one engine  *)
(* client and links it as Write<SharedClient>, an Arc<Mutex<Client>>; each *)
(* worker thread of the server runs one handler at a time.  A handler is a *)
(* sequence of steps; pc names the step a thread takes next.  A guard is   *)
(* dropped where its scope ends: at the end of the statement for a         *)
(* temporary, at the return of the handler for a binding, and while the    *)
(* thread unwinds after a panic, which poisons the mutex.                  *)
(***************************************************************************)
UnreadableBody == [json |-> "unreadable", of |-> "none", items |-> <<>>]

\* the requests the workers take: [handler, request]
LockRequests ==
  {<<"search", Request(NoHeaders, Ok(EmptyParams), NoBody, None)>>,
   <<"index", Request(NoHeaders, Ok(EmptyParams),
                      ArrayBody(ES_TYPE, <<BaseTalent(1)>>), None)>>,
   <<"index", Request(NoHeaders, Ok(EmptyParams), UnreadableBody, None)>>,
   <<"delete", Request(NoHeaders, Ok(EmptyParams), NoBody, Some(<<"1">>))>>,
   <<"delete", Request(NoHeaders, Ok(EmptyParams), NoBody, None)>>,
   <<"reset", Request(NoHeaders, Ok(EmptyParams), NoBody, None)>>}

\* the steps that are calls of the engine
EnginePcs == {"search", "bulk", "delete", "delete_index", "create_mapping"}

\* the thread goes on and keeps the guard it has
Continue(t, thread) ==
  /\ threads' = [threads EXCEPT ![t] = thread]
  /\ UNCHANGED mutex

\* the thread goes on and the guard it has, if any, is dropped
Release(t, thread) ==
  /\ threads' = [threads EXCEPT ![t] = thread]
  /\ mutex' = [mutex EXCEPT !.holder = IF @ = t THEN 0 ELSE @]

\* the handler returns a response: its bindings are dropped
Return(t, response) ==
  Release(t, [IdleThread EXCEPT !.handler  = threads[t].handler,
                                !.pc       = "returned",
                                !.response = response])

\* the handler panics: the thread unwinds, and a guard dropped while
\* unwinding poisons the mutex
Unwind(t, message) ==
  /\ threads' = [threads EXCEPT ![t] =
                   [IdleThread EXCEPT !.handler = threads[t].handler,
                                      !.pc      = "panicked",
                                      !.panic   = message]]
  /\ mutex' = IF mutex.holder = t THEN [holder |-> 0, poisoned |-> TRUE]
              ELSE mutex

\* a worker takes a request and the handler checks the authorization
Accept(t) ==
  /\ threads[t].pc \in {"idle", "returned", "panicked"}
  /\ \E r \in LockRequests :
       LET handler == r[1]
           req     == r[2]
           thread  == [IdleThread EXCEPT !.handler = handler, !.req = req]
           authorized ==
             IF handler = "search"
             THEN ReadableEndpoint_is_authorized(config, req.headers, now)
             ELSE WritableEndpoint_is_authorized(config, req.headers, now)
       IN  IF ~authorized
           THEN Release(t, [thread EXCEPT !.pc = "returned",
                                          !.req = NoRequest,
                                          !.response = unauthorized])
           ELSE Continue(t, [thread EXCEPT !.pc = IF handler = "index" THEN "read"
                                                  ELSE "lock"])
  /\ UNCHANGED <<config, es, now, last, logger>>

\* a variant that takes the client without waiting for its holder
Lock_unchecked(t) ==
  /\ threads[t].pc = "lock"
  /\ threads' = [threads EXCEPT ![t].pc =
                   CASE threads[t].handler = "search" -> "plan"
                     [] threads[t].handler = "index"  -> "bulk"
                     [] threads[t].handler = "delete" -> "find_id"
                     [] OTHER                         -> "delete_index"]
  /\ mutex' = [mutex EXCEPT !.holder = t]
  /\ UNCHANGED <<config, es, now, last, logger>>

\* client.lock().unwrap(): waits until nobody holds the mutex; panics when a
\* holder has panicked
Lock(t) ==
  /\ threads[t].pc = "lock"
  /\ mutex.holder = 0
  /\ IF mutex.poisoned
     THEN Unwind(t, "PoisonError")
     ELSE /\ threads' = [threads EXCEPT ![t].pc =
                           CASE threads[t].handler = "search" -> "plan"
                             [] threads[t].handler = "index"  -> "bulk"
                             [] threads[t].handler = "delete" -> "find_id"
                             [] OTHER                         -> "delete_index"]
          /\ mutex' = [mutex EXCEPT !.holder = t]
  /\ UNCHANGED <<config, es, now, last, logger>>

\* a variant that keeps the guard while the response is encoded
SearchableStep_encode_locked(t) ==
  /\ threads[t].handler = "search"
  /\ \/ /\ threads[t].pc = "plan"
        /\ Continue(t, [threads[t] EXCEPT !.pc = "search"])
     \/ /\ threads[t].pc = "search"
        /\ \E up \in BOOLEAN, sourceless \in BOOLEAN :
             LET results == Talent_search(es, config.es.index,
                                          threads[t].req.params.v, now, up)
             IN  IF sourceless /\ results.talents # <<>>
                 THEN Unwind(t, "unwrap on None")
                 ELSE Continue(t, [threads[t] EXCEPT !.pc = "encode",
                                                     !.calls = @ + 1,
                                                     !.result = Ok(results)])
     \/ /\ threads[t].pc = "encode"
        /\ Return(t, Response(200, JsonBody(threads[t].result.v)))
  /\ UNCHANGED <<config, es, now, last, logger>>

\* SearchableHandler::handle after the authorization: R::search runs with the
\* guard of client.lock() as its argument, the guard is dropped at the end of
\* that statement, then the results are encoded.  Talent::search builds the
\* query (plan), sends it (search) and converts the hits; a hit without a
\* source panics in SearchResult::from.
SearchableStep(t) ==
  /\ threads[t].handler = "search"
  /\ \/ /\ threads[t].pc = "plan"
        /\ Continue(t, [threads[t] EXCEPT !.pc = "search"])
     \/ /\ threads[t].pc = "search"
        /\ \E up \in BOOLEAN, sourceless \in BOOLEAN :
             LET results == Talent_search(es, config.es.index,
                                          threads[t].req.params.v, now, up)
             IN  IF sourceless /\ results.talents # <<>>
                 THEN Unwind(t, "unwrap on None")
                 ELSE Release(t, [threads[t] EXCEPT !.pc = "encode",
                                                    !.calls = @ + 1,
                                                    !.result = Ok(results)])
     \/ /\ threads[t].pc = "encode"
        /\ Return(t, Response(200, JsonBody(threads[t].result.v)))
  /\ UNCHANGED <<config, es, now, last, logger>>

\* IndexableHandler::handle after the authorization: the body is read (an
\* unreadable body panics) and decoded, then R::index runs with the guard of
\* client.lock() inside the scrutinee of try_or_422!: on Err the 422 is built
\* and returned with the guard alive, on Ok the guard is dropped before the
\* 201 is built.
IndexableStep(t) ==
  /\ threads[t].handler = "index"
  /\ \/ /\ threads[t].pc = "read"
        /\ UNCHANGED es
        /\ IF threads[t].req.body = UnreadableBody
           THEN Unwind(t, "read_to_string")
           ELSE LET resources == from_str(threads[t].req.body, ES_TYPE)
                IN  IF ~resources.ok
                    THEN Return(t, error_422(resources.msg))
                    ELSE Continue(t, [threads[t] EXCEPT !.pc = "lock",
                                                        !.result = resources])
     \/ /\ threads[t].pc = "bulk"
        /\ \E up \in BOOLEAN :
             LET indexed == Resource_index(ES_TYPE, es, threads[t].result.v, up)
             IN  /\ es' = indexed.es
                 /\ IF indexed.result.ok
                    THEN Release(t, [threads[t] EXCEPT !.pc = "created",
                                                       !.calls = @ + 1,
                                                       !.result = Ok(TRUE)])
                    ELSE Continue(t, [threads[t] EXCEPT !.pc = "rejected",
                                                        !.calls = @ + 1,
                                                        !.result = indexed.result])
     \/ /\ threads[t].pc = "rejected"
        /\ UNCHANGED es
        /\ Return(t, error_422(threads[t].result.msg))
     \/ /\ threads[t].pc = "created"
        /\ UNCHANGED es
        /\ Return(t, Response(201, EmptyBody))
  /\ UNCHANGED <<config, now, last, logger>>

\* DeletableHandler::handle after the authorization: the guard is bound
\* first and lives to the return; the route parameter is looked up, R::delete
\* runs and the response is built with the guard alive.
DeletableStep(t) ==
  /\ threads[t].handler = "delete"
  /\ \/ /\ threads[t].pc = "find_id"
        /\ UNCHANGED es
        /\ IF ~threads[t].req.id.some
           THEN Return(t, error_422("DELETE#:id not found"))
           ELSE Continue(t, [threads[t] EXCEPT !.pc = "delete"])
     \/ /\ threads[t].pc = "delete"
        /\ \E up \in BOOLEAN :
             LET deleted == Talent_delete(es, threads[t].req.id.v, up)
             IN  /\ es' = deleted.es
                 /\ Continue(t, [threads[t] EXCEPT !.pc = "respond",
                                                   !.calls = @ + 1,
                                                   !.result = deleted.result])
     \/ /\ threads[t].pc = "respond"
        /\ UNCHANGED es
        /\ Return(t, IF threads[t].result.ok THEN Response(204, EmptyBody)
                     ELSE Response(422, TextBody(threads[t].result.msg)))
  /\ UNCHANGED <<config, now, last, logger>>

\* a variant that gives the client back between the two calls of the reset
ResettableStep_released(t) ==
  /\ threads[t].handler = "reset"
  /\ \/ /\ threads[t].pc = "delete_index"
        /\ \E up \in BOOLEAN :
             /\ es' = EsDeleteIndex(es, up).es
             /\ Release(t, [threads[t] EXCEPT !.pc = "create_mapping",
                                              !.calls = @ + 1])
     \/ /\ threads[t].pc = "create_mapping"
        /\ \E up \in BOOLEAN :
             LET created == EsCreateMapping(es, up)
             IN  /\ es' = created.es
                 /\ Continue(t, [threads[t] EXCEPT !.pc = "respond",
                                                   !.calls = @ + 1,
                                                   !.result = created.result])
     \/ /\ threads[t].pc = "respond"
        /\ UNCHANGED es
        /\ Return(t, IF threads[t].result.ok THEN Response(204, EmptyBody)
                     ELSE Response(422, TextBody(threads[t].result.msg)))
  /\ UNCHANGED <<config, now, last, logger>>

\* ResettableHandler::handle after the authorization: the guard is bound
\* first and lives to the return; Talent::reset_index calls delete_index,
\* drops its result, and sends the mapping; the response is built with the
\* guard alive.
ResettableStep(t) ==
  /\ threads[t].handler = "reset"
  /\ \/ /\ threads[t].pc = "delete_index"
        /\ \E up \in BOOLEAN :
             /\ es' = EsDeleteIndex(es, up).es
             /\ Continue(t, [threads[t] EXCEPT !.pc = "create_mapping",
                                               !.calls = @ + 1])
     \/ /\ threads[t].pc = "create_mapping"
        /\ \E up \in BOOLEAN :
             LET created == EsCreateMapping(es, up)
             IN  /\ es' = created.es
                 /\ Continue(t, [threads[t] EXCEPT !.pc = "respond",
                                                   !.calls = @ + 1,
                                                   !.result = created.result])
     \/ /\ threads[t].pc = "respond"
        /\ UNCHANGED es
        /\ Return(t, IF threads[t].result.ok THEN Response(204, EmptyBody)
                     ELSE Response(422, TextBody(threads[t].result.msg)))
  /\ UNCHANGED <<config, now, last, logger>>

NextLock ==
  \E t \in Threads :
    \/ Accept(t)
    \/ Lock(t)
    \/ SearchableStep(t)
    \/ IndexableStep(t)
    \/ DeletableStep(t)
    \/ ResettableStep(t)

\* Server::start: one client behind one mutex, every worker waiting
SpecLock == Init /\ [][NextLock]_vars

(***************************************************************************)
(* The logger.  Logger::init installs a RealLogger around the monitor the  *)
(* configuration names, or around the null monitor; RealLogger::log        *)
(* handles the records.  logger.records keeps, for each record, what log   *)
(* did with it.                                                            *)
(***************************************************************************)
MaxLog == 3

\* LogLevel, from the most to the least severe
LogLevels == <<"Error", "Warn", "Info", "Debug", "Trace">>

LevelNumber(level) == CHOOSE i \in DOMAIN LogLevels : LogLevels[i] = level

\* the [monitor] section of the configuration: absent, or a provider that
\* is enabled or not
MonitorConfigs ==
  {None} \cup {Some([provider |-> p, enabled |-> e]) :
                 p \in {"rollbar", "sentry"}, e \in BOOLEAN}

\* MonitorProvider::find_with_config
MonitorProvider_find_with_config(provider) ==
  IF provider = "rollbar" THEN Some("rollbar") ELSE None

\* Monitor::is_real of NullMonitor and of Rollbar
Monitor_is_real(monitor) == monitor = "rollbar"

\* Monitor::send: Rollbar sends the report, NullMonitor is unimplemented!()
Monitor_send(monitor) ==
  IF monitor = "rollbar" THEN [sent |-> TRUE, panicked |-> FALSE]
  ELSE [sent |-> FALSE, panicked |-> TRUE]

\* RealLogger::enabled
RealLogger_enabled(level) == LevelNumber(level) <= LevelNumber("Info")

\* a variant that reports every error, whatever the monitor
RealLogger_log_unguarded(monitor, level) ==
  IF ~RealLogger_enabled(level)
  THEN [level |-> level, send |-> FALSE, sent |-> FALSE, panicked |-> FALSE,
        printed |-> FALSE]
  ELSE IF level = "Error"
  THEN LET report == Monitor_send(monitor)
       IN  [level |-> level, send |-> TRUE, sent |-> report.sent,
            panicked |-> report.panicked, printed |-> ~report.panicked]
  ELSE [level |-> level, send |-> FALSE, sent |-> FALSE, panicked |-> FALSE,
        printed |-> TRUE]

\* RealLogger::log: what happens to a record of a level
RealLogger_log(monitor, level) ==
  IF ~RealLogger_enabled(level)
  THEN [level |-> level, send |-> FALSE, sent |-> FALSE, panicked |-> FALSE,
        printed |-> FALSE]
  ELSE IF Monitor_is_real(monitor) /\ level = "Error"
  THEN LET report == Monitor_send(monitor)
       IN  [level |-> level, send |-> TRUE, sent |-> report.sent,
            panicked |-> report.panicked, printed |-> ~report.panicked]
  ELSE [level |-> level, send |-> FALSE, sent |-> FALSE, panicked |-> FALSE,
        printed |-> TRUE]

\* Logger::init
Logger_init ==
  /\ logger = NoLogger
  /\ logger' =
       IF config.monitor.some /\ config.monitor.v.enabled
       THEN LET monitor == MonitorProvider_find_with_config(config.monitor.v.provider)
            IN  IF monitor.some THEN [logger EXCEPT !.monitor = monitor.v]
                ELSE [logger EXCEPT !.panicked = TRUE]
       ELSE [logger EXCEPT !.monitor = "null"]
  /\ UNCHANGED <<config, es, now, last, mutex, threads>>

\* error!, warn!, info!, debug! and trace! with the logger installed
Log ==
  /\ logger.monitor # "none"
  /\ Len(logger.records) < MaxLog
  /\ \E i \in DOMAIN LogLevels :
       logger' = [logger EXCEPT !.records =
                    Append(@, RealLogger_log(logger.monitor, LogLevels[i]))]
  /\ UNCHANGED <<config, es, now, last, mutex, threads>>

InitLog ==
  /\ config \in {[Config(FALSE) EXCEPT !.monitor = m] : m \in MonitorConfigs}
  /\ es = FreshIndex
  /\ now = 1
  /\ last = NoLast
  /\ OneAtATime

NextLog == Logger_init \/ Log

SpecLog == InitLog /\ [][NextLog]_vars

(***************************************************************************)
(* Definitions shared by the properties.                                   *)
(***************************************************************************)
\* the talents stored in the index
StoredTalents(e) ==
  {e.docs[i].source : i \in {j \in DOMAIN e.docs : e.docs[j].type = ES_TYPE}}

StoredIds(e) == {t.id : t \in StoredTalents(e)}

\* an accepted talent whose batch window contains the instant
VisibleAt(t, instant) ==
  /\ t.accepted
  /\ t.batch_starts_at <= instant
  /\ instant <= t.batch_ends_at

\* the talents and the ids of the last response, when it is a search result
Returned == IF last.handler = "search" /\ last.response.status = 200
            THEN last.response.body.value.talents ELSE <<>>

ReturnedIds == {Returned[i].talent.id : i \in DOMAIN Returned}

TalentWithId(e, id) == CHOOSE t \in StoredTalents(e) : t.id = id

\* a is not sorted after b by (batch_starts_at, weight, added_to_batch_at),
\* each descending
NotAfter(a, b) ==
  \/ a.batch_starts_at > b.batch_starts_at
  \/ /\ a.batch_starts_at = b.batch_starts_at
     /\ \/ a.weight > b.weight
        \/ /\ a.weight = b.weight
           /\ a.added_to_batch_at >= b.added_to_batch_at

Min(a, b) == IF a < b THEN a ELSE b

DefaultListing ==
  /\ last.handler = "search"
  /\ last.request.params = Ok(EmptyParams)

\* the listing of the visible talents V: only talents of V, none twice, in
\* the default order, the first `size` of them, total |V|, no highlight
ListingOf(V, size) ==
  /\ ReturnedIds \subseteq {t.id : t \in V}
  /\ \A i, j \in DOMAIN Returned : i # j => Returned[i].talent.id # Returned[j].talent.id
  /\ Len(Returned) = size
  /\ \A i, j \in DOMAIN Returned :
       i < j => NotAfter(TalentWithId(es, Returned[i].talent.id),
                         TalentWithId(es, Returned[j].talent.id))
  /\ \A t \in V : t.id \notin ReturnedIds =>
       \A i \in DOMAIN Returned : NotAfter(TalentWithId(es, Returned[i].talent.id), t)
  /\ last.response.body.value.total = Cardinality(V)
  /\ \A i \in DOMAIN Returned : Returned[i].highlight = None

(***************************************************************************)
(* C1 (as stated).  After Talent::index of a batch into a freshly reset    *)
(* index, a search with an empty parameter map returns exactly the talents *)
(* that are accepted and whose batch window contains the current time, in  *)
(* the default order, with total their number and no highlight.            *)
(***************************************************************************)
C1_AllVisibleListed ==
  DefaultListing =>
    LET V == {t \in StoredTalents(es) : VisibleAt(t, last.at)}
    IN  ListingOf(V, Cardinality(V))

(***************************************************************************)
(* C1 (amended).  The search with an empty parameter map returns the first *)
(* 10 (the default per_page) of the accepted talents whose batch window    *)
(* contains the current time, all of them when they are at most 10, in the *)
(* default order; total is the number of all such talents and no result    *)
(* has a highlight.                                                        *)
(***************************************************************************)
C1_FirstPageListed ==
  DefaultListing =>
    LET V == {t \in StoredTalents(es) : VisibleAt(t, last.at)}
    IN  ListingOf(V, Min(Cardinality(V), 10))

\* a default listing of a full page that leaves visible talents out, with
\* talents that tie on batch_starts_at and differ in weight
C1_Witness ==
  /\ DefaultListing
  /\ Len(Returned) = 10
  /\ last.response.body.value.total > 10
  /\ \E i, j \in DOMAIN Returned :
       /\ Returned[i].talent.batch_starts_at = Returned[j].talent.batch_starts_at
       /\ TalentWithId(es, Returned[i].talent.id).weight
            # TalentWithId(es, Returned[j].talent.id).weight

(***************************************************************************)
(* Definitions shared by the properties of deletion and indexing.          *)
(***************************************************************************)
\* the ids a search of the engine e returns, in order
SearchIdsOf(e, p, t) ==
  LET r == Talent_search(e, DEFAULT_INDEX, p, t, TRUE)
  IN  [i \in DOMAIN r.talents |-> r.talents[i].talent.id]

\* the elements the two sequences share come in the same order in both
SameOrder(before, after) ==
  SelectSeq(before, LAMBDA x : x \in Elems(after))
    = SelectSeq(after, LAMBDA x : x \in Elems(before))

PagesFromStart(p) == p["offset"] = Absent

\* the step is a DELETE /talents/:id that the handler answered 204
DeleteStep ==
  /\ last'.handler = "delete"
  /\ last'.response.status = 204

DeletedId == ParseU64(last'.request.id.v).v

(***************************************************************************)
(* C2.  After a successful delete of talent t, no search, whatever its     *)
(* parameters (one that names t.id in bookmarked_talents or                *)
(* presented_talents included) and whatever the time, returns t; the       *)
(* talents a search returned before are, t apart, still returned by the    *)
(* same search when it pages from offset 0, and every search keeps the     *)
(* relative order of the talents it returns before and after.  An id       *)
(* enters the index only through an index request that carries it, and a   *)
(* search returns stored talents only, so t stays away until it is indexed *)
(* again.                                                                  *)
(***************************************************************************)
C2_DeletedNotReturned ==
  [][/\ DeleteStep =>
          \A p \in SearchParams, t \in now'..MaxTime :
            \A found \in {[before |-> SearchIdsOf(es, p, t),
                            after  |-> SearchIdsOf(es', p, t)]} :
              /\ DeletedId \notin Elems(found.after)
              /\ SameOrder(found.before, found.after)
              /\ PagesFromStart(p) =>
                   Elems(found.before) \ {DeletedId} \subseteq Elems(found.after)
      /\ \A id \in StoredIds(es') \ StoredIds(es) :
           /\ last'.handler = "index"
           /\ \E i \in DOMAIN last'.request.body.items :
                last'.request.body.items[i].id = id
      /\ (last'.handler = "search" /\ last'.response.status = 200) =>
           {last'.response.body.value.talents[i].talent.id :
              i \in DOMAIN last'.response.body.value.talents} \subseteq StoredIds(es')
     ]_vars

\* a talent has just been deleted that the default search would return next
\* to the talents it returns now
C2_Witness ==
  /\ last.handler = "delete"
  /\ last.response.status = 204
  /\ Len(SearchIdsOf(es, EmptyParams, now)) >= 2
  /\ LET id == ParseU64(last.request.id.v).v
         e  == Talent_index(es, <<RosterTalent(id)>>, TRUE).es
     IN  /\ id \notin StoredIds(es)
         /\ Len(SearchIdsOf(e, EmptyParams, now)) >= 3
         /\ id \in Elems(SearchIdsOf(e, EmptyParams, now))

(***************************************************************************)
(* C4.  Talent::index is idempotent on id: the index never holds two       *)
(* documents of one type with the same id, after an index request each id  *)
(* of the batch holds the document of its last occurrence in the batch,    *)
(* and indexing the same batch a second time leaves every search with the  *)
(* same ids, total and order as indexing it once.                          *)
(***************************************************************************)
C4_IndexIdempotent ==
  /\ \A i, j \in DOMAIN es.docs :
       /\ (es.docs[i].type = es.docs[j].type /\ es.docs[i].id = es.docs[j].id) => i = j
       /\ (es.docs[i].type = ES_TYPE /\ es.docs[j].type = ES_TYPE
             /\ es.docs[i].source.id = es.docs[j].source.id) => i = j
  /\ (last.handler = "index" /\ last.response.status = 201) =>
       LET batch == last.request.body.items
           twice == Talent_index(es, batch, TRUE).es
       IN  /\ \A i \in DOMAIN batch :
                (\A j \in DOMAIN batch : j > i => batch[j].id # batch[i].id)
                  => TalentWithId(es, batch[i].id) = batch[i]
           /\ twice.docs = es.docs
           /\ \A p \in {EmptyParams, P2("per_page", U64(1), "offset", Str(<<"1">>))} :
                Talent_search(twice, DEFAULT_INDEX, p, now, TRUE)
                  = Talent_search(es, DEFAULT_INDEX, p, now, TRUE)

\* a batch that carries one id twice with different documents was indexed
\* next to another talent, and the default search returns both ids
C4_Witness ==
  /\ last.handler = "index"
  /\ last.response.status = 201
  /\ LET batch == last.request.body.items
     IN  /\ Len(batch) = 2
         /\ batch[1].id = batch[2].id
         /\ batch[1] # batch[2]
         /\ batch[2].id \in Elems(SearchIdsOf(es, EmptyParams, now))
  /\ Len(SearchIdsOf(es, EmptyParams, now)) >= 2

(***************************************************************************)
(* Definitions shared by the properties of visibility.                     *)
(***************************************************************************)
\* the ids a parameter lists, as one scalar or as an array of scalars
IdsOfValue(val) ==
  CASE val.t = "U64"    -> {val.n}
    [] val.t = "String" -> IF ParseU64(val.s).some THEN {ParseU64(val.s).v} ELSE {}
    [] val.t = "Array"  -> {val.a[i].n : i \in {j \in DOMAIN val.a : val.a[j].t = "U64"}}
                           \cup {ParseU64(val.a[i].s).v :
                                   i \in {j \in DOMAIN val.a : val.a[j].t = "String"
                                                     /\ ParseU64(val.a[j].s).some}}
    [] OTHER            -> {}

\* the instant the search is about: the epoch parameter when it is a date
\* string, otherwise the current time
QueryEpoch(p) ==
  IF p["epoch"].t = "String" /\ ParseU64(p["epoch"].s).some
  THEN ParseU64(p["epoch"].s).v
  ELSE last.at

SearchAnswered == last.handler = "search" /\ last.request.params.ok

C10_PresentedWaived ==
  (SearchAnswered /\ last.response.status = 200) =>
    LET p == last.request.params.v IN
    (\A k \in ParamKeys \ {"presented_talents", "epoch"} : p[k] = Absent) =>
      \A id \in IdsOfValue(p["presented_talents"]) \cap StoredIds(es) :
        id \in ReturnedIds

(***************************************************************************)
(* C3.  A successful DELETE /talents/:id also removes the scores of the    *)
(* talent: after it, a score search by talent_id finds no score.           *)
(***************************************************************************)
C3_DeleteCascades ==
  (last.handler = "delete" /\ last.response.status = 204) =>
    Score_search(es, DEFAULT_INDEX,
                 [job_id |-> None, talent_id |-> ParseU64(last.request.id.v)],
                 TRUE).total = 0

(***************************************************************************)
(* Definitions shared by the properties of the handlers.                   *)
(***************************************************************************)
\* the code an Authorization header carries, with or without "token " before
\* it
HeaderCode(h) ==
  IF ~h.Authorization.some \/ ~h.Authorization.v.utf8 THEN None
  ELSE LET text == h.Authorization.v.text
       IN  IF Len(text) >= Len(TOKEN_PREFIX)
                /\ SubSeq(text, 1, Len(TOKEN_PREFIX)) = TOKEN_PREFIX
           THEN ParseU64(SubSeq(text, Len(TOKEN_PREFIX) + 1, Len(text)))
           ELSE ParseU64(text)

\* the TOTP codes of the two secrets at an instant
ReadCode(t)  == hotp_raw(AUTH_READ, t \div ReadLifetime, TOTP_DIGITS)
WriteCode(t) == hotp_raw(AUTH_WRITE, t \div WriteLifetime, TOTP_DIGITS)

\* the step is a request to one of the handlers
Answered(handlers) == last' # last /\ last'.handler \in handlers

ReadAuthorized  == HeaderCode(last.request.headers) = Some(ReadCode(last.at))

(***************************************************************************)
(* C5 (as stated).  With authentication enabled, a GET request is answered *)
(* 200 when its Authorization code is the TOTP code of the read secret for *)
(* the current time step, and 401 when the header is missing, is not a     *)
(* number, or carries any other code (one of another time step, one of the *)
(* write secret).                                                          *)
(***************************************************************************)
C5_ReadAuthorization ==
  last.handler = "search" =>
    IF ReadAuthorized THEN last.response.status = 200
                      ELSE last.response.status = 401

(***************************************************************************)
(* C5 (amended).  With authentication enabled, a GET request whose         *)
(* Authorization code is the TOTP code of the read secret for the current  *)
(* time step is answered 200 when its query parameters parse and 422 when  *)
(* they do not; it is answered 401 when the header is missing, is not a    *)
(* number, or carries any other code.                                      *)
(***************************************************************************)
C5_ReadAuthorizationParsed ==
  last.handler = "search" =>
    IF ReadAuthorized
    THEN IF last.request.params.ok THEN last.response.status = 200
                                   ELSE last.response.status = 422
    ELSE last.response.status = 401

\* a GET in the second time step was answered 200 for the read code of that
\* step, which is not the code of the first step
C5_Witness ==
  /\ last.handler = "search"
  /\ last.response.status = 200
  /\ ReadAuthorized
  /\ ReadCode(last.at) # ReadCode(1)

(***************************************************************************)
(* C6.  With authentication enabled, an index, delete or reset request     *)
(* whose code is not the TOTP code of the write secret for the current     *)
(* time step is answered 401 with an empty body, whatever its body or      *)
(* route id; no engine call is made and the index is left as it was.       *)
(***************************************************************************)
C6_WriteUnauthorized ==
  [][(/\ Answered({"index", "delete", "reset"})
      /\ HeaderCode(last'.request.headers) # Some(WriteCode(last'.at)))
       => /\ last'.response = Response(401, EmptyBody)
          /\ last'.calls = <<>>
          /\ es' = es
    ]_vars

\* a delete of a stored talent that carries the valid read code was answered
\* 401
C6_Witness ==
  /\ last.handler = "delete"
  /\ last.response.status = 401
  /\ ReadAuthorized
  /\ last.request.id.some
  /\ HasDoc(es, ES_TYPE, last.request.id.v)

\* the engine answers the search of the parameters p with an error
EngineRejects(e, p, up) ==
  \/ ~up
  \/ ~e.exists
  \/ p["index"].t = "String" /\ p["index"].s # DEFAULT_INDEX
  \/ p["epoch"].t = "String" /\ ~ParseU64(p["epoch"].s).some

(***************************************************************************)
(* C7.  A search that the engine rejects (the engine cannot be reached,    *)
(* the index does not exist, or the query does not parse) is answered 200  *)
(* with total 0 and no talents, never 422 or 5xx, and the index is left as *)
(* it was.                                                                 *)
(***************************************************************************)
C7_SearchFailureEmpty ==
  [][(/\ Answered({"search"})
      /\ HeaderCode(last'.request.headers) = Some(ReadCode(last'.at))
      /\ last'.request.params.ok
      /\ EngineRejects(es, last'.request.params.v, last'.up[1]))
       => /\ last'.response = Response(200, JsonBody([total |-> 0, talents |-> <<>>]))
          /\ es' = es
    ]_vars

\* a search of an index that holds a visible talent was answered with the
\* empty result because the engine could not be reached
C7_Witness ==
  /\ last.handler = "search"
  /\ ReadAuthorized
  /\ last.request.params = Ok(EmptyParams)
  /\ last.up = <<FALSE>>
  /\ last.response.status = 200
  /\ \E t \in StoredTalents(es) : VisibleAt(t, last.at)

C11_EpochEquality ==
  (/\ SearchAnswered
   /\ \A k \in ParamKeys \ {"epoch"} : last.request.params.v[k] = Absent) =>
    LET epoch == last.request.params.v["epoch"]
        V == CASE epoch = Absent ->
                    {t \in StoredTalents(es) :
                       /\ t.accepted
                       /\ t.batch_starts_at <= last.at
                       /\ last.at <= t.batch_ends_at}
               [] epoch.t = "String" ->
                    {t \in StoredTalents(es) :
                       /\ t.accepted
                       /\ ParseU64(epoch.s).some
                       /\ t.batch_starts_at = ParseU64(epoch.s).v}
               [] OTHER ->
                    {t \in StoredTalents(es) :
                       t.accepted /\ t.batch_starts_at = last.at}
    IN  /\ ReturnedIds \subseteq {t.id : t \in V}
        /\ Len(Returned) = Min(Cardinality(V), 10)
        /\ last.response.body.value.total = Cardinality(V)

\* a search with an epoch returned a talent and left out an accepted talent
\* whose batch started before the epoch and has not ended
C11_Witness ==
  /\ SearchAnswered
  /\ \A k \in ParamKeys \ {"epoch"} : last.request.params.v[k] = Absent
  /\ last.request.params.v["epoch"].t = "String"
  /\ Len(Returned) = 1
  /\ \E t \in StoredTalents(es) :
       /\ t.accepted
       /\ t.batch_starts_at < ParseU64(last.request.params.v["epoch"].s).v
       /\ ParseU64(last.request.params.v["epoch"].s).v <= t.batch_ends_at
       /\ t.id \notin ReturnedIds

(***************************************************************************)
(* C12.  The request of a search has one of two shapes.  When keywords is  *)
(* a non-empty string the query holds the keyword clause for that string,  *)
(* there is no sort, min_score is 0.56, track_scores is set, highlighting  *)
(* is requested and every result carries a highlight.  When keywords is    *)
(* absent, empty or not a string the query holds no keyword clause,        *)
(* nothing is highlighted, the sort is batch_starts_at, weight,            *)
(* added_to_batch_at, and the answer is the answer of the same search      *)
(* without keywords.                                                       *)
(***************************************************************************)
C12_TwoShapes ==
  SearchAnswered =>
    LET p        == last.request.params.v
        request  == SearchRequest(DEFAULT_INDEX, p, last.at)
        clauses  == Elems(request.query.must) \cup Elems(request.query.should)
                      \cup Elems(request.query.must_not)
        keyword  == {c \in clauses : c.q = "query_string"}
    IN  IF p["keywords"].t = "String" /\ Len(p["keywords"].s) > 0
        THEN /\ \E c \in keyword : c.query = p["keywords"].s
             /\ request.sort = None
             /\ request.min_score = Some(56)
             /\ request.track_scores
             /\ request.highlight # None
             /\ \A i \in DOMAIN Returned : Returned[i].highlight # None
        ELSE /\ keyword = {}
             /\ request.sort =
                  Some(<<"batch_starts_at", "weight", "added_to_batch_at">>)
             /\ request.min_score = None
             /\ ~request.track_scores
             /\ request.highlight = None
             /\ \A i \in DOMAIN Returned : Returned[i].highlight = None
             /\ last.response.body.value =
                  Talent_search(es, DEFAULT_INDEX,
                                [p EXCEPT !["keywords"] = Absent],
                                last.at, last.up[1])

\* a search with an empty keyword returned two talents
C12_Witness ==
  /\ SearchAnswered
  /\ last.request.params.v["keywords"] = Str(<<>>)
  /\ Len(Returned) >= 2

\* does features list keywords_should, and the keyword clause of a search
KeywordsShould(p) ==
  /\ p["features"].t = "Array"
  /\ \E i \in DOMAIN p["features"].a : p["features"].a[i] = Str(KEYWORDS_SHOULD)

KeywordClause(p) ==
  build_query_string(p["keywords"].s, maybe_raw(Contains(p["keywords"].s, "\"")))

(***************************************************************************)
(* C13.  In a search whose keywords is a non-empty string the keyword      *)
(* clause is in the should compartment of the query when features lists    *)
(* keywords_should, and in the must compartment otherwise.  With           *)
(* keywords_should and no other filter every visible talent is returned,   *)
(* whether or not it matches the keywords; without it every returned       *)
(* talent matches the keyword clause.                                      *)
(***************************************************************************)
C13_KeywordPlacement ==
  (/\ SearchAnswered
   /\ last.request.params.v["keywords"].t = "String"
   /\ Len(last.request.params.v["keywords"].s) > 0) =>
    LET p       == last.request.params.v
        request == SearchRequest(DEFAULT_INDEX, p, last.at)
    IN  IF KeywordsShould(p)
        THEN /\ KeywordClause(p) \in Elems(request.query.should)
             /\ KeywordClause(p) \notin Elems(request.query.must)
             /\ (\A k \in ParamKeys \ {"keywords", "features"} : p[k] = Absent)
                  => ReturnedIds = {t.id : t \in {v \in StoredTalents(es) :
                                                    VisibleAt(v, last.at)}}
        ELSE /\ KeywordClause(p) \in Elems(request.query.must)
             /\ KeywordClause(p) \notin Elems(request.query.should)
             /\ \A id \in ReturnedIds :
                  Matches(KeywordClause(p), TalentWithId(es, id))

\* the parts of a string between the occurrences of a separator
RECURSIVE SplitOn(_, _)
SplitOn(str, sep) ==
  IF Contains(str, sep)
  THEN LET i == CHOOSE j \in DOMAIN str :
                  str[j] = sep /\ \A k \in 1..(j - 1) : str[k] # sep
       IN  <<SubSeq(str, 1, i - 1)>> \o SplitOn(SubSeq(str, i + 1, Len(str)), sep)
  ELSE <<str>>

\* the experience bands, in order, and the bands a minimum of years admits
Bands ==
  <<BAND_0_1, <<"1", ".", ".", "2">>, BAND_2_4, <<"4", ".", ".", "6">>,
    <<"6", ".", ".", "8">>, <<"8", "+">> >>

LadderSet(min) ==
  LET first == CASE min <= 1 -> 1
                 [] min = 2  -> 2
                 [] min \in {3, 4} -> 3
                 [] min \in {5, 6} -> 4
                 [] min \in {7, 8} -> 5
                 [] OTHER -> 6
  IN  {Bands[i] : i \in first..Len(Bands)}

\* does a talent match the item role[:min[:max]] of desired_work_roles
RoleItemMatches(item, t) ==
  LET parts == SplitOn(item, ":")
  IN  IF Len(parts) = 1 \/ ~ParseU64(parts[2]).some
      THEN parts[1] \in Elems(t.desired_work_roles)
      ELSE \E i \in DOMAIN t.desired_work_roles :
             /\ t.desired_work_roles[i] = parts[1]
             /\ i \in DOMAIN t.desired_work_roles_experience
             /\ t.desired_work_roles_experience[i] \in LadderSet(ParseU64(parts[2]).v)

(***************************************************************************)
(* C14.  In a search that gives desired_work_roles as a list of items      *)
(* role[:min[:max]] and no other parameter, the talents returned are the   *)
(* visible talents that match one of the items: an item without min        *)
(* matches a talent that desires the role, an item with min matches a      *)
(* talent that desires the role with an experience in the bands of the     *)
(* ladder for min.                                                         *)
(***************************************************************************)
C14_RoleLadder ==
  (/\ SearchAnswered
   /\ last.request.params.v["desired_work_roles"].t = "Array"
   /\ \A i \in DOMAIN last.request.params.v["desired_work_roles"].a :
        last.request.params.v["desired_work_roles"].a[i].t = "String"
   /\ \A k \in ParamKeys \ {"desired_work_roles"} :
        last.request.params.v[k] = Absent) =>
    LET items == last.request.params.v["desired_work_roles"].a
    IN  ReturnedIds =
          {t.id : t \in {v \in StoredTalents(es) :
                           /\ VisibleAt(v, last.at)
                           /\ \E i \in DOMAIN items :
                                RoleItemMatches(items[i].s, v)}}

\* the strings a parameter lists when it is an array of strings
StringsOfValue(val) ==
  IF val.t = "Array"
  THEN {val.a[i].s : i \in {j \in DOMAIN val.a : val.a[j].t = "String"}}
  ELSE {}

(***************************************************************************)
(* C15.  In a search that gives maximum_salary, alone or with              *)
(* work_locations: when maximum_salary is a non-negative integer M every   *)
(* returned talent has a salary expectation with minimum <= M, whose city  *)
(* is one of the work_locations when some are listed; when maximum_salary  *)
(* is not a number the answer is the answer of the same search without it. *)
(***************************************************************************)
C15_SalaryFilter ==
  (/\ SearchAnswered
   /\ last.request.params.v["maximum_salary"] # Absent
   /\ \A k \in ParamKeys \ {"maximum_salary", "work_locations"} :
        last.request.params.v[k] = Absent) =>
    LET p         == last.request.params.v
        maximum   == I32FromValue(p["maximum_salary"])
        locations == StringsOfValue(p["work_locations"])
    IN  IF maximum.some
        THEN \A id \in ReturnedIds :
               \E i \in DOMAIN TalentWithId(es, id).salary_expectations :
                 LET expectation == TalentWithId(es, id).salary_expectations[i]
                 IN  /\ expectation.minimum.some
                     /\ expectation.minimum.v <= maximum.v
                     /\ locations # {} => expectation.city \in locations
        ELSE last.response.body.value =
               Talent_search(es, DEFAULT_INDEX,
                             [p EXCEPT !["maximum_salary"] = Absent],
                             last.at, last.up[1])

\* the ids a list parameter names, given in the bracketed form (an array)
\* or as one string of comma separated ids
ListedIds(val) ==
  IF val.t = "String"
  THEN LET parts == SplitOn(val.s, ",")
           ids   == [i \in DOMAIN parts |->
                       ParseU64(SelectSeq(parts[i], LAMBDA c : c # " "))]
       IN  {ids[i].v : i \in {j \in DOMAIN parts : ids[j].some}}
  ELSE IdsOfValue(val)

(***************************************************************************)
(* C16.  No talent returned by a search has an id that contacted_talents   *)
(* or ignored_talents lists, in the bracketed form or as a string of comma *)
(* separated ids; and when company_id = c is given no talent returned has  *)
(* c in its contacted_company_ids or in its blocked_companies.             *)
(***************************************************************************)
C16_Exclusions ==
  SearchAnswered =>
    LET p       == last.request.params.v
        company == I32FromValue(p["company_id"])
    IN  /\ ReturnedIds \cap ListedIds(p["contacted_talents"]) = {}
        /\ ReturnedIds \cap ListedIds(p["ignored_talents"]) = {}
        /\ company.some =>
             \A id \in ReturnedIds :
               /\ company.v \notin Elems(TalentWithId(es, id).contacted_company_ids)
               /\ company.v \notin Elems(TalentWithId(es, id).blocked_companies)

\* the filters that take a list of strings, and a talent's values for each
StringFilters ==
  {"desired_work_roles", "professional_experience", "work_authorization",
   "work_locations", "current_location"}

FilterValuesOf(t, filter) ==
  IF filter \in {"desired_work_roles", "work_locations"}
  THEN Elems(t[filter]) ELSE {t[filter]}

\* a filter given as a list: a non-empty array of strings and numbers (of
\* numbers for the list of ids)
GivenAsList(k, v) ==
  /\ v.t = "Array"
  /\ v.a # <<>>
  /\ \A i \in DOMAIN v.a :
       IF k = "bookmarked_talents" THEN I32FromValue(v.a[i]).some
       ELSE v.a[i].t \in {"String", "U64"}

PagingNumber(val, default) ==
  CASE val.t = "U64"    -> val.n
    [] val.t = "String" -> IF ParseU64(val.s).some THEN ParseU64(val.s).v ELSE default
    [] OTHER            -> default

\* the ids of a search with the paging of the parameters replaced
PageIds(e, p, offset, per_page, t) ==
  SearchIdsOf(e, [p EXCEPT !["offset"] = offset, !["per_page"] = per_page], t)

\* the whole ordered result of the last search
FullIds ==
  PageIds(es, last.request.params.v, Absent, U64(Len(es.docs) + 1), last.at)

\* the pages of n results at the offsets 0, n, 2n, ..., one after the other
RECURSIVE PagesFrom(_, _)
PagesFrom(offset, n) ==
  IF offset >= Len(es.docs) + n THEN <<>>
  ELSE PageIds(es, last.request.params.v, U64(offset), U64(n), last.at)
         \o PagesFrom(offset + n, n)

(***************************************************************************)
(* C18.  A search with a page size other than zero returns the slice of    *)
(* the whole ordered result that starts after offset results and has at    *)
(* most per_page results, where offset and per_page are the integer or the *)
(* numeric string given and 0 and 10 when the parameter is absent or is    *)
(* not a number; total is the length of the whole result; an offset at or  *)
(* past the end returns no talent; and the pages of per_page results at    *)
(* the offsets 0, per_page, 2 per_page, ... make up the whole result.      *)
(***************************************************************************)
C18_Paging ==
  (/\ SearchAnswered
   /\ PagingNumber(last.request.params.v["per_page"], 10) # 0) =>
    LET offset   == PagingNumber(last.request.params.v["offset"], 0)
        per_page == PagingNumber(last.request.params.v["per_page"], 10)
        full     == FullIds
    IN  /\ [i \in DOMAIN Returned |-> Returned[i].talent.id]
             = SubSeq(full, offset + 1, Min(offset + per_page, Len(full)))
        /\ Len(full) > 0 => last.response.body.value.total = Len(full)
        /\ offset >= Len(full) => Returned = <<>>
        /\ PagesFrom(0, per_page) = full

\* a search with offset and per_page given as strings returned a full page
\* from the middle of the result
C18_Witness ==
  /\ SearchAnswered
  /\ last.request.params.v["offset"] = Str(<<"3">>)
  /\ last.request.params.v["per_page"] = Str(<<"3">>)
  /\ Len(Returned) = 3
  /\ Len(FullIds) > 6

(***************************************************************************)
(* C19.  A search with per_page = 0, as an integer or as the string "0",   *)
(* returns what the same search without per_page returns.                  *)
(***************************************************************************)
C19_ZeroPerPage ==
  (/\ SearchAnswered
   /\ last.request.params.v["per_page"] \in {U64(0), Str(<<"0">>)}) =>
    last.response.body.value =
      Talent_search(es, DEFAULT_INDEX,
                    [last.request.params.v EXCEPT !["per_page"] = Absent],
                    last.at, last.up[1])

(***************************************************************************)
(* C20.  A request that posts talents, with the desired roles given in the *)
(* structured form desired_roles or as the parallel arrays                 *)
(* desired_work_roles and desired_work_roles_experience, is ingested; and  *)
(* every stored talent holds both forms, the two arrays have the same      *)
(* length and desired_roles pairs them element by element.                 *)
(***************************************************************************)
C20_DesiredRolesRoundTrip ==
  /\ (/\ last.handler = "index"
      /\ last.resource = ES_TYPE
      /\ last.request.body.json = "array"
      /\ last.request.body.of = ES_TYPE) => last.response.status = 201
  /\ \A t \in StoredTalents(es) :
       /\ {"desired_roles", "desired_work_roles",
           "desired_work_roles_experience"} \subseteq DOMAIN t
       /\ Len(t.desired_work_roles) = Len(t.desired_work_roles_experience)
       /\ t.desired_roles = DesiredRoles(t)

(***************************************************************************)
(* C21.  The result of a search has the field raw_es_query exactly when    *)
(* the parameter debug_es_query = true was given; the field then holds a   *)
(* string that contains the request line POST /<index>/_search of the      *)
(* index searched.                                                         *)
(***************************************************************************)
C21_RawEsQuery ==
  (SearchAnswered /\ last.response.status = 200) =>
    LET results == last.response.body.value
        index   == SearchRequest(DEFAULT_INDEX, last.request.params.v, last.at).index
    IN  /\ ("raw_es_query" \in DOMAIN results)
             <=> (last.request.params.v["debug_es_query"] = Str(<<"t", "r", "u", "e">>))
        /\ "raw_es_query" \in DOMAIN results =>
             Occurrences(results.raw_es_query,
                         <<"P", "O", "S", "T", " ", "/">> \o index
                           \o <<"/", "_", "s", "e", "a", "r", "c", "h">>) > 0

NoFulltextSearch(p) ==
  /\ p["features"].t = "Array"
  /\ \E i \in DOMAIN p["features"].a : p["features"].a[i] = Str(NO_FULLTEXT_SEARCH)

\* the fields of the keyword clause for a keyword with or without a double
\* quote, with or without the feature no_fulltext_search
ModifiedKeywordFields(quoted, keyword_only) ==
  CASE quoted /\ keyword_only ->
         {"skills.keyword.raw", "summary.keyword.raw", "headline.keyword.raw",
          "desired_work_roles.raw", "work_experiences.raw", "educations.raw"}
    [] quoted /\ ~keyword_only ->
         {"skills.raw", "summary.raw", "headline.raw",
          "desired_work_roles.raw", "work_experiences.raw", "educations.raw"}
    [] ~quoted /\ keyword_only ->
         {"skills.keyword", "summary.keyword", "headline.keyword",
          "desired_work_roles", "work_experiences", "educations"}
    [] OTHER ->
         {"skills", "summary", "headline",
          "desired_work_roles", "work_experiences", "educations"}

KeywordClausesOf(query) ==
  {c \in Elems(query.must) \cup Elems(query.should) : c.q = "query_string"}

(***************************************************************************)
(* C23.  In a search whose keywords is a non-empty string the keyword      *)
(* clause targets skills, summary, headline, desired_work_roles,           *)
(* work_experiences and educations; every field has the suffix .raw when   *)
(* the keyword contains a double quote; summary, headline and skills have  *)
(* the suffix .keyword when features lists no_fulltext_search; with both   *)
(* the suffix is .keyword.raw; and the highlighted fields are the fields   *)
(* of the keyword clause.                                                  *)
(***************************************************************************)
C23_KeywordFields ==
  (/\ SearchAnswered
   /\ last.request.params.v["keywords"].t = "String"
   /\ Len(last.request.params.v["keywords"].s) > 0) =>
    LET p       == last.request.params.v
        request == SearchRequest(DEFAULT_INDEX, p, last.at)
        clauses == KeywordClausesOf(request.query)
    IN  /\ clauses # {}
        /\ \A c \in clauses :
             /\ Elems(c.fields) =
                  ModifiedKeywordFields(Contains(p["keywords"].s, "\""),
                                        NoFulltextSearch(p))
             /\ request.highlight = Some(c.fields)

\* the filter parameters by the coercion that reads them
ScalarFilterKeys == {"company_id", "presented_talents"}
StringListFilterKeys == {"languages", "desired_work_roles", "professional_experience",
                         "work_authorization", "work_locations", "current_location"}
IdListFilterKeys == {"bookmarked_talents", "contacted_talents", "ignored_talents"}
FilterKeys == ScalarFilterKeys \cup StringListFilterKeys \cup IdListFilterKeys

IsNumber(v) ==
  \/ v.t = "U64"
  \/ v.t = "String" /\ ParseU64(v.s).some

\* a value that gives the filter nothing to constrain: missing, an empty
\* list, of the wrong shape for the key, or unparseable.  (A scalar string
\* for contacted_talents and ignored_talents is a CSV list, see C16.)
Degraded(k, v) ==
  \/ v = Absent
  \/ v = Arr(<<>>)
  \/ k \in ScalarFilterKeys /\ ~IsNumber(v)
  \/ k \in StringListFilterKeys \cup {"bookmarked_talents"} /\ v.t # "Array"
  \/ k \in StringListFilterKeys /\ v.t = "Array"
       /\ \E i \in DOMAIN v.a : v.a[i].t \notin {"String", "U64"}
  \/ k \in IdListFilterKeys /\ v.t = "Array"
       /\ \E i \in DOMAIN v.a : ~IsNumber(v.a[i])

(***************************************************************************)
(* C24.  For every filter parameter, a value that is missing, of the wrong *)
(* shape or unparseable (company_id = "" or a word, an array where a       *)
(* scalar is expected, a scalar where an array is expected, a list with an *)
(* unparseable element) and an empty list add no clause: the query built   *)
(* is the query built with that parameter absent, and the search is        *)
(* answered with 200 as every search is.                                   *)
(***************************************************************************)
C24_PlannerDegradation ==
  SearchAnswered =>
    /\ last.response.status = 200
    /\ \A k \in FilterKeys :
         Degraded(k, last.request.params.v[k]) =>
           \A p \in {last.request.params.v} :
             SearchRequest(DEFAULT_INDEX, p, last.at).query =
               SearchRequest(DEFAULT_INDEX, [p EXCEPT ![k] = Absent], last.at).query

\* a search with an unparseable company_id or presented_talents next to a
\* filter that holds has returned a talent
C24_Witness ==
  /\ SearchAnswered
  /\ \E k \in ScalarFilterKeys :
       /\ last.request.params.v[k] = Str(<<"m">>)
       /\ Degraded(k, last.request.params.v[k])
  /\ last.request.params.v["work_locations"] # Absent
  /\ ReturnedIds # {}

(***************************************************************************)
(* C27.  Every response with a body has a JSON body: the 200 of a search   *)
(* is a JSON document, every 422 (failed decode, failed bulk index, failed *)
(* DELETE /:id, failed reset) is a JSON object with an error field, and    *)
(* the responses with an empty body are the 201, 204 and 401 ones.         *)
(***************************************************************************)
C27_JsonBodies ==
  last.handler # "none" =>
    LET response == last.response IN
    /\ response.body.kind \in {"empty", "json"}
    /\ response.status = 422 =>
         /\ response.body.kind = "json"
         /\ "error" \in DOMAIN response.body.value
    /\ response.body.kind = "empty" <=> response.status \in {201, 204, 401}

\* the step of an authorized reset whose two calls reach the engine
ResetStep ==
  /\ last'.handler = "reset"
  /\ last'.calls = <<"delete_index", "create_mapping">>
  /\ last'.up = <<TRUE, TRUE>>
  /\ last' # last \/ es' # es

(***************************************************************************)
(* C22.  A reset whose calls reach the engine succeeds whether or not the  *)
(* index existed before (the failure of delete_index is ignored); after it *)
(* the index exists with the hardcoded mapping and holds no document, a    *)
(* search finds a total of 0, and a second reset right after it succeeds   *)
(* and leaves the same state.                                              *)
(***************************************************************************)
C22_ResetRecreates ==
  [][ResetStep =>
       /\ last'.response = Response(204, EmptyBody)
       /\ es' = [exists |-> TRUE, mapped |-> TRUE, docs |-> <<>>]
       /\ Talent_search(es', DEFAULT_INDEX, EmptyParams, now, TRUE).total = 0
       /\ Talent_reset_index(es', TRUE, TRUE) = [es |-> es', result |-> Ok(TRUE)]
       /\ Talent_reset_index(es, TRUE, TRUE).es = es']_vars

\* a reset has answered 204 on an engine that had no index or an index with
\* documents, and left the fresh index
C22_Witness ==
  /\ last.handler = "reset"
  /\ last.up = <<TRUE, TRUE>>
  /\ last.response.status = 204
  /\ es = FreshIndex

\* the threads that are inside an engine call
InEngineCall == {t \in Threads : threads[t].pc \in EnginePcs}

(***************************************************************************)
(* C25.  The handlers share one engine client and their access to it is    *)
(* serialised: at most one thread at a time is inside an engine call, and  *)
(* that thread holds the mutex; a thread that has returned (with a         *)
(* success, a 422 or an early return), that has panicked or that waits for *)
(* a request does not hold the mutex.                                      *)
(***************************************************************************)
C25_Serialised ==
  /\ Cardinality(InEngineCall) <= 1
  /\ \A t \in InEngineCall : mutex.holder = t
  /\ \A t \in Threads :
       threads[t].pc \in {"idle", "returned", "panicked"} => mutex.holder # t
  /\ mutex.holder # 0 =>
       threads[mutex.holder].pc \notin {"idle", "returned", "panicked", "lock", "read"}

\* a delete handler has returned a 422, which it built with the guard
\* alive, and another thread is inside an engine call with the mutex
C25_Witness ==
  \E t \in Threads, u \in Threads :
    /\ threads[u].handler = "delete"
    /\ threads[u].pc = "returned"
    /\ threads[u].response.status = 422
    /\ threads[t].pc \in EnginePcs
    /\ mutex.holder = t

EngineCallBy(u) ==
  /\ threads[u].pc \in EnginePcs
  /\ threads'[u] # threads[u]

(***************************************************************************)
(* C29.  A reset is atomic with respect to the other requests: while a     *)
(* thread is between the delete_index call and the mapping create of a     *)
(* reset it holds the mutex, no other thread makes an engine call (search, *)
(* bulk, delete, delete_index or create_mapping), and the engine state     *)
(* changes by the mapping create of that thread only.                      *)
(***************************************************************************)
C29_AtomicReset ==
  [][\A t \in Threads :
       threads[t].pc = "create_mapping" =>
         /\ mutex.holder = t
         /\ \A u \in Threads \ {t} : ~EngineCallBy(u)
         /\ es' # es => threads'[t].pc = "respond"]_vars

\* a reset has deleted the index and not yet sent the mapping, and another
\* thread, a bulk index, waits for the mutex
C29_Witness ==
  \E t \in Threads, u \in Threads :
    /\ threads[t].pc = "create_mapping"
    /\ ~es.exists
    /\ threads[u].pc = "lock"
    /\ threads[u].handler = "index"

(***************************************************************************)
(* C28.  A panic inside one handler does not stop the service: a request   *)
(* handled after it panics only for a fault of its own (a hit without a    *)
(* source, an unreadable body) and is answered with its normal status      *)
(* otherwise, also when it needs the client whose mutex was held at the    *)
(* panic: no thread panics on the lock of the client, and the mutex is     *)
(* never left unusable.                                                    *)
(***************************************************************************)
C28_PanicIsolation ==
  /\ \A t \in Threads :
       threads[t].pc = "panicked" =>
         threads[t].panic \in {"unwrap on None", "read_to_string"}
  /\ ~mutex.poisoned

(***************************************************************************)
(* C30.  With a logger installed, for every record logged, monitor.send is *)
(* invoked exactly when the installed monitor is a real one and the level  *)
(* of the record is Error; the monitor is the null monitor exactly when    *)
(* the configuration has no monitor or has it disabled; and with the null  *)
(* monitor no record invokes send and no record panics, whatever its       *)
(* level.                                                                  *)
(***************************************************************************)
C30_MonitorSend ==
  logger.monitor # "none" =>
    /\ logger.monitor = "null"
         <=> (~config.monitor.some \/ ~config.monitor.v.enabled)
    /\ \A i \in DOMAIN logger.records :
         LET record == logger.records[i] IN
         /\ record.send <=> (logger.monitor # "null" /\ record.level = "Error")
         /\ logger.monitor = "null" => ~record.send /\ ~record.panicked

\* a monitor is configured and disabled, and an Error, a Warn and a Trace
\* were logged with the null monitor
C30_Witness ==
  /\ config.monitor.some
  /\ logger.monitor = "null"
  /\ \A level \in {"Error", "Warn", "Trace"} :
       \E i \in DOMAIN logger.records : logger.records[i].level = level

TypeOK == last.response.status \in {0, 200, 201, 204, 401, 422}

====
